---------------------------- MODULE OfficeProofs ----------------------------
(***************************************************************************)
(* Theorems about the components that MCOffice and MCPatience put side by  *)
(* side and that do not interact: ReferralLedger, KeyRotation, PaidOrders, *)
(* Website, Deliveries and the panels of OwnerConsole, for every value of  *)
(* their constants.  Each section has the component's types and inductive  *)
(* invariant, a lemma per action or group of actions, and its theorems.    *)
(***************************************************************************)
EXTENDS ReferralLedger, KeyRotation, PaidOrders, Website, Deliveries, OwnerConsole,
        FiniteSetTheorems, SequenceTheorems, WellFoundedInduction, TLAPS

-----------------------------------------------------------------------------
(* ReferralLedger.  A payout is requested from a snapshot, so the proof      *)
(* follows what a request relies on while others run (Asks): the sales it    *)
(* read stay the creator's and keep their rewards, and those it has locked   *)
(* stay AVAILABLE.  A sum is never taken apart: the rewards of the same      *)
(* sales are the same sum.                                                   *)

Creator == [code : Codes \cup {None}, active : BOOLEAN, versions : Seq(Version)]
Sale ==
  [creator : Creators \cup {None}, version : Nat, promised : Nat, state : States, reward : Nat]
Link == [creator : Creators \cup {None}, version : Nat]
Sums == {SumFunction(f) : f \in UNION {[S -> Nat] : S \in SUBSET Sales}}
Payout == [creator : Creators, amount : Sums, status : {"REQUESTED", "PAID"}]
Request ==
  [creator : Creators \cup {None}, code : Codes \cup {None}, rule : Rules \cup {None},
   version : Nat, sales : SUBSET Sales, threshold : Nat]

Earned == {"PENDING", "AVAILABLE", "PAID_OUT", "REVERSED"}

(* The code a creator has, and the version a sale or a link names.           *)
Made(x) == (x.code \in Codes <=> x.versions # <<>>) /\ (x.active => x.versions # <<>>)
Names(c, v) == c \in Creators /\ v \in 1..Len(creators[c].versions)
Fair(x) ==
  /\ x.state # "none" => /\ Names(x.creator, x.version)
                         /\ x.promised = Reward(RuleOf(x.creator, x.version))
  /\ x.reward > 0 <=> x.state \in Earned
  /\ x.state \in Earned => x.reward = x.promised

(* What a request that comes to statement n with w relies on.                *)
Asks(n, w) ==
  /\ n = "version" => /\ w.creator \in Creators /\ w.code \in Codes /\ w.rule \in Rules
                      /\ creators[w.creator].versions # <<>>
  /\ n \in {"lock", "commit"} =>
       /\ w.creator \in Creators
       /\ \A z \in w.sales : sales[z].creator = w.creator /\ sales[z].state \in Earned
  /\ n = "commit" => /\ \A z \in w.sales : sales[z].state = "AVAILABLE"
                     /\ Rewards(w.sales) > 0

CreatorsOK == creators \in [Creators -> Creator] /\ \A c \in Creators : Made(creators[c])
SalesOK == sales \in [Sales -> Sale] /\ \A s \in Sales : Fair(sales[s])
LinksOK ==
  /\ links \in [Sales -> Link]
  /\ \A s \in Sales : links[s].creator # None => Names(links[s].creator, links[s].version)
PayoutsOK == payouts \in Seq(Payout) /\ alloc \in [Sales -> 0..Len(payouts)]
RequestsOK ==
  /\ step \in [Owners -> Steps] /\ req \in [Owners -> Request]
  /\ \A o \in Owners : Asks(step[o], req[o])

(* What an allocated sale is to its payout.                                  *)
Settles(z) ==
  /\ alloc[z] # 0 =>
       /\ sales[z].state \in Earned /\ sales[z].creator = payouts[alloc[z]].creator
       /\ payouts[alloc[z]].status = "PAID" => sales[z].state \in {"PAID_OUT", "REVERSED"}
  /\ sales[z].state = "PAID_OUT" => alloc[z] # 0 /\ payouts[alloc[z]].status = "PAID"
ExactOK ==
  /\ \A p \in 1..Len(payouts) :
       payouts[p].amount > 0 /\ payouts[p].amount = Rewards(Allocated(p))
  /\ \A s \in Sales : Settles(s)

IInv == CreatorsOK /\ SalesOK /\ LinksOK /\ PayoutsOK /\ RequestsOK /\ ExactOK

(* What no step takes back.                                                  *)
CreatorsGrow ==
  \A c \in Creators :
    /\ Len(creators[c].versions) <= Len(creators'[c].versions)
    /\ \A v \in 1..Len(creators[c].versions) :
         creators'[c].versions[v].rule = creators[c].versions[v].rule
    /\ creators[c].versions # <<>> => creators'[c].versions # <<>>
SaleKept(z) ==
  sales[z].state \in Earned =>
    /\ sales'[z].state \in Earned
    /\ sales'[z].creator = sales[z].creator /\ sales'[z].reward = sales[z].reward
LocksHold(z) == Locked(z) /\ sales[z].state = "AVAILABLE" => sales'[z].state = "AVAILABLE"
SalesGrow == \A z \in Sales : SaleKept(z) /\ LocksHold(z)
-----------------------------------------------------------------------------
(* The version list of a creator has a length.                               *)
LEMMA Versions ==
  ASSUME CreatorsOK, NEW c \in Creators
  PROVE  creators[c].versions \in Seq(Version) /\ Len(creators[c].versions) \in Nat
<1>1. creators[c] \in Creator
  BY DEF CreatorsOK
<1> QED BY <1>1, LenProperties DEF Creator

(* The rewards of the same sales are the same sum.                           *)
LEMMA RewardsKept ==
  ASSUME NEW S, \A z \in S : sales'[z].reward = sales[z].reward
  PROVE  Rewards(S)' = Rewards(S)
<1>1. [s \in S |-> sales'[s].reward] = [s \in S |-> sales[s].reward]
  OBVIOUS
<1> QED BY <1>1 DEF Rewards

(* A sum of rewards.                                                         *)
LEMMA RewardsSum ==
  ASSUME SalesOK, NEW S \in SUBSET Sales
  PROVE  Rewards(S) \in Sums
<1>1. [s \in S |-> sales[s].reward] \in [S -> Nat]
  BY DEF SalesOK, Sale
<1> QED BY <1>1 DEF Rewards, Sums

(* A version that is named keeps its rule.                                   *)
LEMMA NamesKept ==
  ASSUME CreatorsOK, CreatorsOK', CreatorsGrow, NEW c, NEW v, Names(c, v)
  PROVE  Names(c, v)' /\ Reward(RuleOf(c, v))' = Reward(RuleOf(c, v))
<1>1. /\ c \in Creators /\ v \in 1..Len(creators[c].versions)
      /\ Len(creators[c].versions) \in Nat /\ Len(creators'[c].versions) \in Nat
      /\ Len(creators[c].versions) <= Len(creators'[c].versions)
  <2>1. c \in Creators
    BY DEF Names
  <2>2. creators'[c] \in Creator
    BY <2>1 DEF CreatorsOK
  <2> QED BY <2>1, <2>2, Versions, LenProperties DEF Names, CreatorsGrow, Creator
<1>2. RuleOf(c, v)' = RuleOf(c, v)
  BY <1>1 DEF CreatorsGrow, RuleOf
<1> QED BY <1>1, <1>2 DEF Names, Reward, Amount, Discount

(* What a request relies on stays.                                           *)
LEMMA AsksKept ==
  ASSUME CreatorsGrow, SalesGrow, NEW n, NEW w \in Request, Asks(n, w),
         n = "commit" => \A z \in w.sales : Locked(z)
  PROVE  Asks(n, w)'
<1>1. w.sales \subseteq Sales
  BY DEF Request
<1>2. CASE n = "version"
  BY <1>2 DEF Asks, CreatorsGrow
<1>3. CASE n \in {"lock", "commit"}
  <2>1. \A z \in w.sales : /\ sales'[z].creator = w.creator /\ sales'[z].state \in Earned
                           /\ sales'[z].reward = sales[z].reward
    BY <1>1, <1>3 DEF Asks, SalesGrow, SaleKept
  <2>2. Rewards(w.sales)' = Rewards(w.sales)
    BY <2>1, RewardsKept
  <2>3. n = "commit" => \A z \in w.sales : sales'[z].state = "AVAILABLE"
    BY <1>1 DEF Asks, SalesGrow, LocksHold
  <2> QED BY <1>3, <2>1, <2>2, <2>3 DEF Asks
<1> QED BY <1>2, <1>3 DEF Asks

(* One request moves on to what it can rely on, the others keep theirs.      *)
LEMMA RequestMoves ==
  ASSUME RequestsOK, CreatorsGrow, SalesGrow, NEW o \in Owners, NEW n \in Steps, NEW w \in Request,
         step' = [step EXCEPT ![o] = n], req' = [req EXCEPT ![o] = w], Asks(n, w)'
  PROVE  RequestsOK'
<1>1. step' \in [Owners -> Steps] /\ req' \in [Owners -> Request]
  BY DEF RequestsOK
<1>2. ASSUME NEW u \in Owners PROVE Asks(step[u], req[u])'
  <2>1. CASE u = o
    <3>1. step'[u] = n /\ req'[u] = w
      BY <2>1 DEF RequestsOK
    <3> QED BY <3>1 DEF Asks
  <2>2. CASE u # o
    <3>1. PICK w1 \in Request : w1 = req[u]
      BY DEF RequestsOK
    <3>2. PICK n1 : n1 = step[u]
      OBVIOUS
    <3>3. Asks(n1, w1) /\ (n1 = "commit" => \A z \in w1.sales : Locked(z))
      BY <3>1, <3>2 DEF RequestsOK, Locked
    <3>4. Asks(n1, w1)'
      BY <3>3, AsksKept
    <3>5. step'[u] = n1 /\ req'[u] = w1
      BY <2>2, <3>1, <3>2 DEF RequestsOK
    <3> QED BY <3>4, <3>5 DEF Asks
  <2> QED BY <2>1, <2>2
<1> QED BY <1>1, <1>2 DEF RequestsOK

(* No request moves.                                                         *)
LEMMA RequestsStay ==
  ASSUME RequestsOK, CreatorsGrow, SalesGrow, UNCHANGED ownerVars
  PROVE  RequestsOK'
<1>1. ASSUME NEW u \in Owners PROVE Asks(step[u], req[u])'
  <2>1. PICK w1 \in Request : w1 = req[u]
    BY DEF RequestsOK
  <2>2. PICK n1 : n1 = step[u]
    OBVIOUS
  <2>3. Asks(n1, w1) /\ (n1 = "commit" => \A z \in w1.sales : Locked(z))
    BY <2>1, <2>2 DEF RequestsOK, Locked
  <2>4. Asks(n1, w1)'
    BY <2>3, AsksKept
  <2>5. step'[u] = n1 /\ req'[u] = w1
    BY <2>1, <2>2 DEF ownerVars
  <2> QED BY <2>4, <2>5 DEF Asks
<1> QED BY <1>1 DEF RequestsOK, ownerVars

(* A request is over.                                                        *)
LEMMA DoneKeeps ==
  ASSUME RequestsOK, CreatorsGrow, SalesGrow, NEW o \in Owners, Done(o)
  PROVE  RequestsOK'
<1>1. NoRequest \in Request /\ Asks("idle", NoRequest)'
  BY DEF NoRequest, Request, Asks
<1> QED BY <1>1, RequestMoves DEF Done, Go, Steps

-----------------------------------------------------------------------------
(* The tables stay as they are.                                              *)
LEMMA TablesStay ==
  ASSUME IInv, UNCHANGED tables
  PROVE  /\ CreatorsOK' /\ SalesOK' /\ LinksOK' /\ PayoutsOK' /\ ExactOK'
         /\ CreatorsGrow /\ SalesGrow
<1> USE DEF tables
<1>1. CreatorsGrow /\ SalesGrow
  BY Versions DEF IInv, CreatorsGrow, SalesGrow, SaleKept, LocksHold
<1>2. CreatorsOK' /\ LinksOK' /\ PayoutsOK'
  BY DEF IInv, CreatorsOK, Made, LinksOK, Names, PayoutsOK
<1>3. SalesOK'
  BY DEF IInv, SalesOK, Fair, Names, RuleOf
<1>4. ExactOK'
  BY DEF IInv, ExactOK, Settles, Rewards, Allocated
<1> QED BY <1>1, <1>2, <1>3, <1>4

(* Creators change: what names a version still names it.                     *)
LEMMA CreatorsMove ==
  ASSUME IInv, CreatorsOK', CreatorsGrow, UNCHANGED <<sales, links, payouts, alloc>>
  PROVE  SalesOK' /\ LinksOK' /\ PayoutsOK' /\ ExactOK' /\ SalesGrow
<1>1. SalesGrow
  BY DEF SalesGrow, SaleKept, LocksHold
<1>2. SalesOK'
  <2>1. ASSUME NEW s \in Sales PROVE Fair(sales[s])'
    <3>1. PICK x \in Sale : x = sales[s]
      BY DEF IInv, SalesOK
    <3>2. Fair(x)
      BY <3>1 DEF IInv, SalesOK
    <3>3. CASE x.state = "none"
      BY <3>1, <3>2, <3>3 DEF Fair
    <3>4. CASE x.state # "none"
      <4>1. /\ Names(x.creator, x.version)'
            /\ Reward(RuleOf(x.creator, x.version))' = Reward(RuleOf(x.creator, x.version))
        BY <3>2, <3>4, NamesKept DEF Fair, IInv
      <4> QED BY <3>1, <3>2, <4>1 DEF Fair
    <3> QED BY <3>3, <3>4
  <2> QED BY <2>1 DEF IInv, SalesOK
<1>3. LinksOK'
  <2>1. ASSUME NEW s \in Sales, NEW x, x = links[s], x.creator # None PROVE Names(x.creator, x.version)'
    <3>1. Names(x.creator, x.version)
      BY <2>1 DEF IInv, LinksOK
    <3> QED BY <3>1, NamesKept DEF IInv
  <2> QED BY <2>1 DEF IInv, LinksOK
<1>4. PayoutsOK' /\ ExactOK'
  BY DEF IInv, PayoutsOK, ExactOK, Settles, Rewards, Allocated
<1> QED BY <1>1, <1>2, <1>3, <1>4

(* One creator's row is replaced by one that has all its versions.           *)
LEMMA CreatorWritten ==
  ASSUME IInv, NEW c \in Creators, NEW x \in Creator, Made(x), creators' = [creators EXCEPT ![c] = x],
         Len(creators[c].versions) <= Len(x.versions),
         creators[c].versions # <<>> => x.versions # <<>>,
         \A v \in 1..Len(creators[c].versions) : x.versions[v].rule = creators[c].versions[v].rule
  PROVE  CreatorsOK' /\ CreatorsGrow
<1>1. creators'[c] = x /\ \A d \in Creators : d # c => creators'[d] = creators[d]
  BY DEF IInv, CreatorsOK
<1>2. CreatorsOK'
  BY <1>1 DEF IInv, CreatorsOK, Made
<1>3. CreatorsGrow
  BY <1>1, Versions DEF IInv, CreatorsGrow
<1> QED BY <1>2, <1>3

(* A new creator, and a creator paused or resumed.                           *)
LEMMA CreatorStepKeeps ==
  ASSUME IInv, CreateCreator \/ SetCreatorActive
  PROVE  IInv'
<1>1. CreatorsOK' /\ CreatorsGrow
  <2>1. CASE CreateCreator
    <3>1. PICK c \in Creators, code \in Codes, rule \in Rules :
            /\ Latest(c) = 0
            /\ creators' = [creators EXCEPT ![c] =
                 [code |-> code, active |-> TRUE, versions |-> <<[rule |-> rule, code |-> code]>>]]
      BY <2>1 DEF CreateCreator
    <3>2. PICK v \in Version : v = [rule |-> rule, code |-> code]
      BY DEF Version
    <3>3. <<v>> \in Seq(Version) /\ Len(<<v>>) = 1 /\ <<v>> # <<>>
      OBVIOUS
    <3>4. PICK x \in Creator : x = [code |-> code, active |-> TRUE, versions |-> <<v>>]
      BY <3>3 DEF Creator
    <3>5. Made(x) /\ Len(x.versions) = 1 /\ x.versions # <<>>
      BY <3>3, <3>4 DEF Made
    <3>6. /\ creators' = [creators EXCEPT ![c] = x]
          /\ Len(creators[c].versions) <= Len(x.versions)
          /\ creators[c].versions # <<>> => x.versions # <<>>
          /\ \A i \in 1..Len(creators[c].versions) : x.versions[i].rule = creators[c].versions[i].rule
      BY <3>1, <3>2, <3>4, <3>5 DEF Latest
    <3> QED BY <3>5, <3>6, CreatorWritten
  <2>2. CASE SetCreatorActive
    <3>1. PICK c \in Creators, b \in BOOLEAN :
            Latest(c) > 0 /\ creators' = [creators EXCEPT ![c].active = b]
      BY <2>2 DEF SetCreatorActive
    <3>2. PICK y \in Creator : y = creators[c]
      BY DEF IInv, CreatorsOK
    <3>3. PICK x : x = [y EXCEPT !.active = b]
      OBVIOUS
    <3>4. x \in Creator /\ x.versions = y.versions /\ x.code = y.code
      BY <3>3 DEF Creator
    <3>5. Made(y) /\ Len(y.versions) > 0
      BY <3>1, <3>2 DEF IInv, CreatorsOK, Latest
    <3>6. y.versions # <<>>
      BY <3>5, EmptySeq
    <3>7. Made(x)
      BY <3>4, <3>5, <3>6 DEF Made
    <3>8. creators' = [creators EXCEPT ![c] = x]
      BY <3>1, <3>2, <3>3
    <3>9. /\ creators' = [creators EXCEPT ![c] = x]
          /\ Len(creators[c].versions) <= Len(x.versions)
          /\ creators[c].versions # <<>> => x.versions # <<>>
          /\ \A i \in 1..Len(creators[c].versions) : x.versions[i].rule = creators[c].versions[i].rule
      BY <3>2, <3>4, <3>8, Versions DEF IInv
    <3> QED BY <3>4, <3>7, <3>9, CreatorWritten
  <2> QED BY <2>1, <2>2
<1>2. SalesOK' /\ LinksOK' /\ PayoutsOK' /\ ExactOK' /\ SalesGrow
  BY <1>1, CreatorsMove DEF CreateCreator, SetCreatorActive
<1> QED BY <1>1, <1>2, RequestsStay DEF CreateCreator, SetCreatorActive, IInv

(* A new version goes after the others.                                      *)
LEMMA WriteVersionKeeps ==
  ASSUME IInv, NEW o \in Owners, WriteVersion(o)
  PROVE  IInv'
<1>1. PICK w \in Request : w = req[o]
  BY DEF IInv, RequestsOK
<1>2. /\ w.creator \in Creators /\ w.code \in Codes /\ w.rule \in Rules
      /\ creators[w.creator].versions # <<>>
  BY <1>1 DEF WriteVersion, IInv, RequestsOK, Asks
<1>3. CASE creators' = [creators EXCEPT
             ![w.creator].code = w.code,
             ![w.creator].versions = Append(@, [rule |-> w.rule, code |-> w.code])]
  <2>1. PICK c \in Creators : c = w.creator
    BY <1>2
  <2>2. PICK y \in Creator : y = creators[c]
    BY DEF IInv, CreatorsOK
  <2>3. PICK v \in Version : v = [rule |-> w.rule, code |-> w.code]
    BY <1>2 DEF Version
  <2>4. /\ Append(y.versions, v) \in Seq(Version) /\ Len(y.versions) \in Nat
        /\ Len(Append(y.versions, v)) = Len(y.versions) + 1
        /\ \A i \in 1..Len(y.versions) : Append(y.versions, v)[i] = y.versions[i]
    BY AppendProperties, LenProperties DEF Creator
  <2>5. Append(y.versions, v) # <<>>
    BY <2>4, EmptySeq
  <2>6. PICK y1 : y1 = [y EXCEPT !.code = w.code]
    OBVIOUS
  <2>7. y1 \in Creator /\ y1.code = w.code /\ y1.versions = y.versions
    BY <1>2, <2>6 DEF Creator
  <2>8. PICK x : x = [y1 EXCEPT !.versions = Append(y.versions, v)]
    OBVIOUS
  <2>9. x \in Creator /\ x.code = w.code /\ x.versions = Append(y.versions, v)
    BY <2>4, <2>7, <2>8 DEF Creator
  <2>10. creators' = [creators EXCEPT ![c] = x]
    BY <1>3, <2>1, <2>2, <2>3, <2>6, <2>7, <2>8 DEF IInv, CreatorsOK, Creator
  <2>11. Made(x)
    BY <1>2, <2>5, <2>9 DEF Made
  <2>12. CreatorsOK' /\ CreatorsGrow
    <3>1. /\ creators' = [creators EXCEPT ![c] = x]
          /\ Len(creators[c].versions) <= Len(x.versions)
          /\ creators[c].versions # <<>> => x.versions # <<>>
          /\ \A i \in 1..Len(creators[c].versions) : x.versions[i].rule = creators[c].versions[i].rule
      BY <2>2, <2>4, <2>5, <2>9, <2>10
    <3> QED BY <2>9, <2>11, <3>1, CreatorWritten
  <2>13. SalesOK' /\ LinksOK' /\ PayoutsOK' /\ ExactOK' /\ SalesGrow
    BY <2>12, CreatorsMove DEF WriteVersion
  <2> QED BY <2>12, <2>13, DoneKeeps DEF WriteVersion, IInv
<1>4. CASE UNCHANGED creators
  <2>1. /\ CreatorsOK' /\ SalesOK' /\ LinksOK' /\ PayoutsOK' /\ ExactOK'
        /\ CreatorsGrow /\ SalesGrow
    BY <1>4, TablesStay DEF WriteVersion, tables
  <2> QED BY <2>1, DoneKeeps DEF WriteVersion, IInv
<1> QED BY <1>1, <1>3, <1>4 DEF WriteVersion

(* A sale moves on and stays true to its quote.                              *)
LEMMA SaleMoves ==
  ASSUME IInv, NEW s \in Sales, NEW x \in Sale, Fair(x), sales' = [sales EXCEPT ![s] = x],
         UNCHANGED <<creators, links, payouts, alloc, ownerVars>>,
         sales[s].state \in Earned => /\ x.state \in Earned /\ x.creator = sales[s].creator
                                      /\ x.reward = sales[s].reward
                                      /\ ~Locked(s) \/ x.state = "AVAILABLE",
         x.state # "PAID_OUT", sales[s].state \in {"PAID_OUT", "REVERSED"} => x.state = "REVERSED"
  PROVE  IInv'
<1>1. sales'[s] = x /\ \A z \in Sales : z # s => sales'[z] = sales[z]
  BY DEF IInv, SalesOK
<1>2. SalesGrow /\ CreatorsGrow
  <2>1. CreatorsGrow
    BY Versions DEF IInv, CreatorsGrow
  <2>2. ASSUME NEW z \in Sales PROVE SaleKept(z) /\ LocksHold(z)
    <3>1. CASE z = s
      BY <1>1, <3>1 DEF SaleKept, LocksHold, Earned
    <3>2. CASE z # s
      BY <1>1, <3>2 DEF SaleKept, LocksHold
    <3> QED BY <3>1, <3>2
  <2> QED BY <2>1, <2>2 DEF SalesGrow
<1>3. SalesOK'
  BY <1>1 DEF IInv, SalesOK, Fair, Names, RuleOf
<1>4. CreatorsOK' /\ LinksOK' /\ PayoutsOK'
  BY DEF IInv, CreatorsOK, Made, LinksOK, Names, PayoutsOK
<1>5. ExactOK'
  <2>1. ASSUME NEW p \in 1..Len(payouts) PROVE Rewards(Allocated(p))' = Rewards(Allocated(p))
    <3>1. PICK S : S = Allocated(p)
      OBVIOUS
    <3>2. \A z \in S : z \in Sales /\ alloc[z] # 0
      BY <3>1, <2>1, LenProperties DEF Allocated, IInv, PayoutsOK
    <3>3. \A z \in S : sales'[z].reward = sales[z].reward
      BY <1>2, <3>2 DEF SalesGrow, SaleKept, IInv, ExactOK, Settles
    <3>4. Rewards(S)' = Rewards(S)
      BY <3>3, RewardsKept
    <3>5. Allocated(p)' = S
      BY <3>1 DEF Allocated
    <3> QED BY <3>1, <3>4, <3>5 DEF Rewards
  <2>2. ASSUME NEW z \in Sales PROVE Settles(z)'
    <3>1. CASE z = s
      BY <1>1, <3>1 DEF IInv, ExactOK, Settles, Earned
    <3>2. CASE z # s
      BY <1>1, <3>2 DEF IInv, ExactOK, Settles
    <3> QED BY <3>1, <3>2
  <2> QED BY <2>1, <2>2 DEF IInv, ExactOK
<1> QED BY <1>2, <1>3, <1>4, <1>5, RequestsStay DEF IInv

(* A discount that leaves something to pay leaves a reward that is a number. *)
LEMMA RewardNat ==
  ASSUME LedgerAssumption, NEW rule \in Rules, Discount(rule) \in 1..Price - 1
  PROVE  Reward(rule) \in Nat
<1>1. rule.reward.value \in Nat
  BY DEF LedgerAssumption
<1>2. PICK base \in Nat : base = Price - Discount(rule)
  BY DEF LedgerAssumption
<1>3. PICK n \in Nat : n = base * rule.reward.value
  BY <1>1
<1>4. n \div 10000 \in Nat
  OBVIOUS
<1> QED BY <1>1, <1>2, <1>3, <1>4 DEF Reward, Amount

(* An active creator's newest version is there.                              *)
LEMMA LatestNamed ==
  ASSUME IInv, NEW c \in Creators, creators[c].active
  PROVE  Names(c, Latest(c)) /\ Latest(c) \in Nat
<1>1. creators[c].versions # <<>> /\ creators[c].versions \in Seq(Version)
  BY Versions DEF IInv, CreatorsOK, Made
<1>2. Len(creators[c].versions) \in Nat \ {0}
  BY <1>1, EmptySeq
<1> QED BY <1>2 DEF Names, Latest

(* A visitor takes a link.                                                   *)
LEMMA VisitKeeps ==
  ASSUME IInv, NEW s \in Sales, Visit(s)
  PROVE  IInv'
<1>1. PICK c \in Creators :
        creators[c].active /\ links' = [links EXCEPT ![s] = [creator |-> c, version |-> Latest(c)]]
  BY DEF Visit
<1>2. PICK n \in Nat : n = Latest(c) /\ Names(c, n)
  BY <1>1, LatestNamed
<1>3. PICK x \in Link : x = [creator |-> c, version |-> n]
  BY DEF Link
<1>4. links' = [links EXCEPT ![s] = x]
  BY <1>1, <1>2, <1>3
<1>5. links' \in [Sales -> Link]
  BY <1>4 DEF IInv, LinksOK
<1>6. ASSUME NEW z \in Sales PROVE links'[z].creator # None => Names(links[z].creator, links[z].version)'
  <2>1. CASE z = s
    BY <1>2, <1>3, <1>4, <2>1 DEF Visit, IInv, LinksOK, Names
  <2>2. CASE z # s
    BY <1>4, <2>2 DEF Visit, IInv, LinksOK, Names
  <2> QED BY <2>1, <2>2
<1>7. LinksOK'
  BY <1>5, <1>6 DEF LinksOK
<1>8. CreatorsOK' /\ PayoutsOK' /\ CreatorsGrow /\ SalesGrow
  BY Versions DEF Visit, IInv, CreatorsOK, Made, PayoutsOK, CreatorsGrow, SalesGrow, SaleKept, LocksHold
<1>9. SalesOK' /\ ExactOK'
  BY DEF Visit, IInv, SalesOK, Fair, Names, RuleOf, ExactOK, Settles, Rewards, Allocated
<1> QED BY <1>7, <1>8, <1>9, RequestsStay DEF Visit, IInv

(* The rule a version names is one of the rules.                             *)
LEMMA RuleNamed ==
  ASSUME CreatorsOK, NEW c, NEW v, Names(c, v)
  PROVE  RuleOf(c, v) \in Rules
<1>1. c \in Creators /\ v \in 1..Len(creators[c].versions)
  BY DEF Names
<1>2. creators[c].versions[v] \in Version
  BY <1>1, Versions, ElementOfSeq
<1> QED BY <1>2 DEF RuleOf, Version

(* A sale is quoted by an active creator's code or link.                     *)
LEMMA QuoteKeeps ==
  ASSUME LedgerAssumption, IInv, NEW s \in Sales, Quote(s)
  PROVE  IInv'
<1>1. PICK o \in Offers(s) :
        /\ Discount(RuleOf(o.creator, o.version)) \in 1..Price - 1
        /\ sales' = [sales EXCEPT ![s] =
             [creator |-> o.creator, version |-> o.version,
              promised |-> Reward(RuleOf(o.creator, o.version)), state |-> "quoted", reward |-> 0]]
  BY DEF Quote
<1>2. Names(o.creator, o.version) /\ o.version \in Nat
  <2>1. o.creator # None
    BY DEF Offers
  <2>2. CASE o = links[s]
    BY <2>1, <2>2 DEF IInv, LinksOK, Link
  <2>3. CASE \E c \in Creators : o = [creator |-> c, version |-> Latest(c)]
    <3>1. PICK c \in Creators : o = [creator |-> c, version |-> Latest(c)]
      BY <2>3
    <3>2. o.creator = c /\ o.version = Latest(c)
      BY <3>1
    <3>3. creators[c].active
      BY <3>2 DEF Offers
    <3> QED BY <3>2, <3>3, LatestNamed
  <2> QED BY <2>2, <2>3 DEF Offers
<1>3. PICK r \in Nat : r = Reward(RuleOf(o.creator, o.version))
  BY <1>1, <1>2, RuleNamed, RewardNat DEF IInv
<1>4. PICK x : x = [creator |-> o.creator, version |-> o.version, promised |-> r,
                    state |-> "quoted", reward |-> 0]
  OBVIOUS
<1>5. x \in Sale
  BY <1>2, <1>4 DEF Sale, States, Names
<1>6. Fair(x)
  BY <1>2, <1>3, <1>4 DEF Fair, Earned
<1>7. sales' = [sales EXCEPT ![s] = x]
  BY <1>1, <1>3, <1>4
<1>8. x.state = "quoted" /\ sales[s].state \in {"none", "quoted"}
  BY <1>4 DEF Quote
<1> QED BY <1>5, <1>6, <1>7, <1>8, SaleMoves DEF Quote, Earned

(* A sale is paid, becomes available, or is refunded.                        *)
LEMMA SaleStepKeeps ==
  ASSUME IInv, NEW s \in Sales, Convert(s) \/ MarkAvailable(s) \/ Reverse(s)
  PROVE  IInv'
<1>1. PICK y \in Sale : y = sales[s]
  BY DEF IInv, SalesOK
<1>2. Fair(y)
  BY <1>1 DEF IInv, SalesOK
<1>3. CASE Convert(s)
  <2>1. PICK r \in Nat : r = Reward(FrozenRule(s)) /\ r = y.promised /\ r > 0
    BY <1>1, <1>2, <1>3 DEF Convert, FrozenRule, Fair, Sale
  <2>2. PICK y1 : y1 = [y EXCEPT !.state = "PENDING"]
    OBVIOUS
  <2>3. PICK x : x = [y1 EXCEPT !.reward = r]
    OBVIOUS
  <2>4. /\ y1 \in Sale /\ y1.creator = y.creator /\ y1.version = y.version
        /\ y1.promised = y.promised /\ y1.state = "PENDING"
    BY <2>2 DEF Sale, States
  <2>5. /\ x \in Sale /\ x.creator = y.creator /\ x.version = y.version
        /\ x.promised = y.promised /\ x.state = "PENDING" /\ x.reward = r
    BY <2>3, <2>4 DEF Sale
  <2>6. Fair(x)
    BY <1>1, <1>2, <1>3, <2>1, <2>5 DEF Convert, Fair, Earned
  <2>7. sales' = [sales EXCEPT ![s] = x]
    BY <1>1, <1>3, <2>1, <2>2, <2>3 DEF Convert, IInv, SalesOK, Sale
  <2>8. sales[s].state = "quoted"
    BY <1>3 DEF Convert
  <2> QED BY <1>3, <2>5, <2>6, <2>7, <2>8, SaleMoves DEF Convert, Earned
<1>4. CASE MarkAvailable(s) \/ Reverse(s)
  <2>1. PICK g \in {"AVAILABLE", "REVERSED"} : sales' = [sales EXCEPT ![s].state = g]
                     /\ (g = "AVAILABLE" => MarkAvailable(s)) /\ (g = "REVERSED" => Reverse(s))
    BY <1>4 DEF MarkAvailable, Reverse
  <2>2. PICK x : x = [y EXCEPT !.state = g]
    OBVIOUS
  <2>3. /\ x \in Sale /\ x.creator = y.creator /\ x.version = y.version
        /\ x.promised = y.promised /\ x.state = g /\ x.reward = y.reward
    BY <2>2 DEF Sale, States
  <2>4. sales[s].state \in {"PENDING", "AVAILABLE", "PAID_OUT"}
    BY <1>4 DEF MarkAvailable, Reverse
  <2>5. Fair(x)
    BY <1>1, <1>2, <2>3, <2>4 DEF Fair, Earned
  <2>6. sales' = [sales EXCEPT ![s] = x]
    BY <1>1, <2>1, <2>2
  <2>7. g = "AVAILABLE" => sales[s].state = "PENDING"
    BY <2>1 DEF MarkAvailable
  <2>8. g = "REVERSED" => ~Locked(s)
    BY <2>1 DEF Reverse
  <2>9. UNCHANGED <<creators, links, payouts, alloc, ownerVars>>
    BY <1>4 DEF MarkAvailable, Reverse
  <2> QED BY <1>1, <2>3, <2>4, <2>5, <2>6, <2>7, <2>8, <2>9, SaleMoves DEF Earned
<1> QED BY <1>3, <1>4

(* An owner's request arrives, or locks what it can.                         *)
LEMMA OwnerStepKeeps ==
  ASSUME LedgerAssumption, IInv, NEW o \in Owners,
         UpdateCreator(o) \/ RequestPayout(o) \/ LockRewards(o)
  PROVE  IInv'
<1>1. /\ CreatorsOK' /\ SalesOK' /\ LinksOK' /\ PayoutsOK' /\ ExactOK'
      /\ CreatorsGrow /\ SalesGrow
  BY TablesStay DEF UpdateCreator, RequestPayout, LockRewards
<1>2. NoRequest \in Request
  BY DEF NoRequest, Request
<1>3. CASE UpdateCreator(o)
  <2>1. PICK c \in Creators, code \in Codes, rule \in Rules :
          /\ Latest(c) \in 1..MaxVersions - 1
          /\ req' = [req EXCEPT ![o] = [NoRequest EXCEPT
               !.creator = c, !.code = code, !.rule = rule, !.version = Latest(c) + 1]]
    BY <1>3 DEF UpdateCreator
  <2>2. PICK n \in Nat : n = Latest(c) + 1
    BY <2>1, Versions DEF Latest, IInv
  <2>3. PICK w1 : w1 = [NoRequest EXCEPT !.creator = c]
    OBVIOUS
  <2>4. PICK w2 : w2 = [w1 EXCEPT !.code = code]
    OBVIOUS
  <2>5. PICK w3 : w3 = [w2 EXCEPT !.rule = rule]
    OBVIOUS
  <2>6. PICK w : w = [w3 EXCEPT !.version = n]
    OBVIOUS
  <2>7. w = [NoRequest EXCEPT !.creator = c, !.code = code, !.rule = rule, !.version = Latest(c) + 1]
    BY <2>2, <2>3, <2>4, <2>5, <2>6
  <2>8. w1 \in Request /\ w1.creator = c
    BY <1>2, <2>3 DEF Request
  <2>9. w2 \in Request /\ w2.creator = c /\ w2.code = code
    BY <2>4, <2>8 DEF Request
  <2>10. w3 \in Request /\ w3.creator = c /\ w3.code = code /\ w3.rule = rule
    BY <2>5, <2>9 DEF Request
  <2>11. w \in Request /\ w.creator = c /\ w.code = code /\ w.rule = rule
    BY <2>6, <2>10 DEF Request
  <2>12. creators[c].versions # <<>>
    BY <2>1, EmptySeq DEF Latest
  <2>13. Asks("version", w)'
    BY <1>1, <2>11, <2>12 DEF Asks, CreatorsGrow
  <2> QED BY <1>1, <1>3, <2>1, <2>7, <2>11, <2>13, RequestMoves DEF UpdateCreator, Go, Steps, IInv
<1>4. CASE RequestPayout(o)
  <2>1. PICK c \in Creators :
          /\ Eligible(c) # {}
          /\ req' = [req EXCEPT ![o] = [NoRequest EXCEPT
               !.creator = c, !.sales = Eligible(c), !.threshold = RuleOf(c, Latest(c)).threshold]]
    BY <1>4 DEF RequestPayout
  <2>2. PICK s \in Sales : sales[s].creator = c /\ sales[s].state = "AVAILABLE"
    BY <2>1 DEF Eligible
  <2>3. creators[c].versions \in Seq(Version) /\ Len(creators[c].versions) \in Nat \ {0}
    BY <2>2, Versions DEF IInv, SalesOK, Fair, Names
  <2>4. PICK d \in Nat : d = RuleOf(c, Latest(c)).threshold
    <3>1. Names(c, Latest(c))
      BY <2>3 DEF Names, Latest
    <3> QED BY <3>1, RuleNamed DEF LedgerAssumption, IInv
  <2>5. PICK E \in SUBSET Sales : E = Eligible(c)
    BY DEF Eligible
  <2>6. PICK w1 : w1 = [NoRequest EXCEPT !.creator = c]
    OBVIOUS
  <2>7. PICK w2 : w2 = [w1 EXCEPT !.sales = E]
    OBVIOUS
  <2>8. PICK w : w = [w2 EXCEPT !.threshold = d]
    OBVIOUS
  <2>9. w = [NoRequest EXCEPT !.creator = c, !.sales = Eligible(c),
                              !.threshold = RuleOf(c, Latest(c)).threshold]
    BY <2>4, <2>5, <2>6, <2>7, <2>8
  <2>10. w1 \in Request /\ w1.creator = c
    BY <1>2, <2>6 DEF Request
  <2>11. w2 \in Request /\ w2.creator = c /\ w2.sales = E
    BY <2>7, <2>10 DEF Request
  <2>12. w \in Request /\ w.creator = c /\ w.sales = E
    BY <2>8, <2>11 DEF Request
  <2>13. Asks("lock", w)'
    BY <1>4, <2>5, <2>12 DEF Asks, Eligible, Earned, RequestPayout, tables
  <2> QED BY <1>1, <1>4, <2>1, <2>9, <2>12, <2>13, RequestMoves DEF RequestPayout, Go, Steps, IInv
<1>5. CASE LockRewards(o)
  <2>1. PICK w \in Request : w = req[o]
    BY DEF IInv, RequestsOK
  <2>2. PICK T \in SUBSET Sales : T = {s \in w.sales : sales[s].state = "AVAILABLE" /\ ~Locked(s)}
    BY DEF Request
  <2>3. CASE Done(o)
    BY <1>1, <2>3, DoneKeeps DEF IInv
  <2>4. CASE PayoutDue(T, w.threshold) /\ Go(o, "commit") /\ req' = [req EXCEPT ![o].sales = T]
    <3>1. PICK x : x = [w EXCEPT !.sales = T]
      OBVIOUS
    <3>2. x \in Request /\ x.creator = w.creator /\ x.sales = T
      BY <3>1 DEF Request
    <3>3. /\ w.creator \in Creators
          /\ \A z \in T : sales[z].creator = w.creator /\ sales[z].state = "AVAILABLE"
      BY <1>5, <2>1, <2>2 DEF LockRewards, IInv, RequestsOK, Asks
    <3>4. Rewards(T) > 0
      BY <2>4 DEF PayoutDue
    <3>5. Rewards(T)' = Rewards(T) /\ sales' = sales
      BY <1>5, RewardsKept DEF LockRewards, tables
    <3>6. Asks("commit", x)'
      BY <3>2, <3>3, <3>4, <3>5 DEF Asks, Earned
    <3>7. req' = [req EXCEPT ![o] = x]
      BY <2>1, <2>4, <3>1
    <3> QED BY <1>1, <2>4, <3>2, <3>6, <3>7, RequestMoves DEF Go, Steps, IInv
  <2> QED BY <1>5, <2>1, <2>2, <2>3, <2>4 DEF LockRewards
<1> QED BY <1>3, <1>4, <1>5

(* A payout is committed for sales no other payout has.                      *)
LEMMA CommitKeeps ==
  ASSUME IInv, NEW o \in Owners, CommitPayout(o)
  PROVE  IInv'
<1>1. PICK w \in Request : w = req[o]
  BY DEF IInv, RequestsOK
<1>2. PICK T \in SUBSET Sales : T = w.sales
  BY DEF Request
<1>3. /\ w.creator \in Creators /\ Rewards(T) > 0
      /\ \A z \in T : sales[z].creator = w.creator /\ sales[z].state = "AVAILABLE"
  BY <1>1, <1>2 DEF CommitPayout, IInv, RequestsOK, Asks
<1>4. CreatorsGrow /\ SalesGrow
  BY Versions DEF CommitPayout, IInv, CreatorsGrow, SalesGrow, SaleKept, LocksHold
<1>5. CASE UNCHANGED <<payouts, alloc>>
  <2>1. CreatorsOK' /\ SalesOK' /\ LinksOK' /\ PayoutsOK' /\ ExactOK'
    BY <1>5, TablesStay DEF CommitPayout, tables
  <2> QED BY <1>4, <2>1, DoneKeeps DEF CommitPayout, IInv
<1>6. CASE /\ Allocatable(T)
           /\ payouts' = Append(payouts,
                [creator |-> w.creator, amount |-> Rewards(T), status |-> "REQUESTED"])
           /\ alloc' = [s \in Sales |-> IF s \in T THEN Len(payouts) + 1 ELSE alloc[s]]
  <2>1. PICK x : x = [creator |-> w.creator, amount |-> Rewards(T), status |-> "REQUESTED"]
    OBVIOUS
  <2>2. x \in Payout
    BY <1>3, <2>1, RewardsSum DEF Payout, IInv
  <2>3. /\ payouts' \in Seq(Payout) /\ Len(payouts) \in Nat /\ Len(payouts') = Len(payouts) + 1
        /\ \A p \in 1..Len(payouts) : payouts'[p] = payouts[p]
        /\ payouts'[Len(payouts) + 1] = x
    BY <1>6, <2>1, <2>2, AppendProperties, LenProperties DEF IInv, PayoutsOK
  <2>4. \A z \in Sales : alloc[z] \in 0..Len(payouts)
    BY DEF IInv, PayoutsOK
  <2>5. PayoutsOK'
    <3>1. alloc' \in [Sales -> 0..Len(payouts')]
      BY <1>6, <2>3, <2>4
    <3> QED BY <2>3, <3>1 DEF PayoutsOK
  <2>6. \A z \in T : alloc[z] = 0 /\ alloc'[z] = Len(payouts) + 1
    BY <1>6 DEF Allocatable
  <2>7. \A z \in Sales \ T : alloc'[z] = alloc[z]
    BY <1>6
  <2>8. ASSUME NEW p \in 1..Len(payouts')
        PROVE  payouts'[p].amount > 0 /\ payouts'[p].amount = Rewards(Allocated(p))'
    <3>1. CASE p = Len(payouts) + 1
      <4>1. Allocated(p)' = T
        BY <2>3, <2>4, <2>6, <2>7, <3>1 DEF Allocated
      <4>2. Rewards(Allocated(p))' = Rewards(T)
        BY <4>1 DEF Rewards, CommitPayout
      <4> QED BY <1>3, <2>1, <2>3, <3>1, <4>2
    <3>2. CASE p \in 1..Len(payouts)
      <4>1. Allocated(p)' = Allocated(p)
        BY <2>3, <2>6, <2>7, <3>2 DEF Allocated
      <4>2. Rewards(Allocated(p))' = Rewards(Allocated(p))
        BY <4>1 DEF Rewards, CommitPayout
      <4> QED BY <2>3, <3>2, <4>2 DEF IInv, ExactOK
    <3> QED BY <2>3, <3>1, <3>2
  <2>9. ASSUME NEW z \in Sales PROVE Settles(z)'
    <3>1. CASE z \in T
      <4>1. payouts'[alloc'[z]] = x /\ alloc'[z] # 0
        BY <2>3, <2>6, <3>1
      <4>2. sales' = sales /\ x.creator = w.creator /\ x.status = "REQUESTED"
        BY <2>1 DEF CommitPayout
      <4> QED BY <1>3, <3>1, <4>1, <4>2 DEF Settles, Earned
    <3>2. CASE z \notin T
      <4>1. sales' = sales /\ alloc'[z] = alloc[z] /\ Settles(z)
        BY <2>7, <3>2 DEF CommitPayout, IInv, ExactOK
      <4>2. alloc[z] # 0 => payouts'[alloc[z]] = payouts[alloc[z]]
        BY <2>3, <2>4
      <4> QED BY <4>1, <4>2 DEF Settles
    <3> QED BY <3>1, <3>2
  <2>10. ExactOK'
    BY <2>8, <2>9 DEF ExactOK
  <2>11. CreatorsOK' /\ SalesOK' /\ LinksOK'
    BY DEF CommitPayout, IInv, CreatorsOK, Made, SalesOK, Fair, Names, RuleOf, LinksOK
  <2> QED BY <1>4, <2>5, <2>10, <2>11, DoneKeeps DEF CommitPayout, IInv
<1> QED BY <1>1, <1>2, <1>5, <1>6 DEF CommitPayout

(* A payout is settled with all its sales, which were all available.         *)
LEMMA SettleKeeps ==
  ASSUME IInv, NEW p \in 1..Len(payouts), payouts[p].status = "REQUESTED", Settleable(p),
         \A s \in Allocated(p) : ~Locked(s),
         payouts' = [payouts EXCEPT ![p].status = "PAID"],
         sales' = [s \in Sales |-> IF s \in Allocated(p) /\ sales[s].state = "AVAILABLE"
                                   THEN [sales[s] EXCEPT !.state = "PAID_OUT"] ELSE sales[s]],
         UNCHANGED <<creators, links, alloc, ownerVars>>
  PROVE  IInv' /\ PaidIsMoved
<1>1. PICK y \in Payout : y = payouts[p]
  BY ElementOfSeq DEF IInv, PayoutsOK
<1>2. PICK x : x = [y EXCEPT !.status = "PAID"]
  OBVIOUS
<1>3. x \in Payout /\ x.creator = y.creator /\ x.amount = y.amount /\ x.status = "PAID"
  BY <1>2 DEF Payout
<1>4. payouts' = [payouts EXCEPT ![p] = x]
  BY <1>1, <1>2
<1>5. /\ payouts' \in Seq(Payout) /\ Len(payouts) \in Nat /\ Len(payouts') = Len(payouts)
      /\ payouts'[p] = x /\ \A q \in 1..Len(payouts) : q # p => payouts'[q] = payouts[q]
  <2>1. payouts \in Seq(Payout) /\ Len(payouts) \in Nat
    BY LenProperties DEF IInv, PayoutsOK
  <2>2. PICK w : w = [payouts EXCEPT ![p] = x]
    OBVIOUS
  <2>3. /\ w \in Seq(Payout) /\ Len(w) = Len(payouts) /\ w[p] = x
        /\ \A q \in 1..Len(payouts) : q # p => w[q] = payouts[q]
    BY <1>3, <2>1, <2>2, ExceptSeq
  <2> QED BY <1>4, <2>1, <2>2, <2>3
<1>6. ASSUME NEW z \in Sales
      PROVE  /\ sales'[z] \in Sale /\ sales'[z].creator = sales[z].creator
             /\ sales'[z].version = sales[z].version /\ sales'[z].promised = sales[z].promised
             /\ sales'[z].reward = sales[z].reward
             /\ z \in Allocated(p) => sales[z].state = "AVAILABLE" /\ sales'[z].state = "PAID_OUT"
             /\ z \notin Allocated(p) => sales'[z].state = sales[z].state
  <2>1. PICK v \in Sale : v = sales[z]
    BY DEF IInv, SalesOK
  <2>2. CASE z \in Allocated(p)
    <3>1. v.state = "AVAILABLE" /\ sales'[z] = [v EXCEPT !.state = "PAID_OUT"]
      BY <2>1, <2>2 DEF Settleable
    <3> QED BY <2>1, <2>2, <3>1 DEF Sale, States
  <2>3. CASE z \notin Allocated(p)
    BY <2>1, <2>3
  <2> QED BY <2>2, <2>3
<1>7. SalesGrow /\ CreatorsGrow
  BY <1>6, Versions DEF IInv, SalesGrow, SaleKept, LocksHold, CreatorsGrow, Earned
<1>8. SalesOK'
  <2>1. sales' \in [Sales -> Sale]
    BY <1>6
  <2>2. ASSUME NEW z \in Sales PROVE Fair(sales[z])'
    BY <1>6 DEF IInv, SalesOK, Fair, Names, RuleOf, Earned
  <2> QED BY <2>1, <2>2 DEF SalesOK
<1>9. CreatorsOK' /\ LinksOK' /\ PayoutsOK'
  BY <1>5 DEF IInv, CreatorsOK, Made, LinksOK, Names, PayoutsOK
<1>10. \A q \in 1..Len(payouts) : /\ payouts'[q].amount = payouts[q].amount
                                  /\ payouts'[q].creator = payouts[q].creator
                                  /\ q # p => payouts'[q].status = payouts[q].status
  BY <1>1, <1>3, <1>5
<1>11. ASSUME NEW q \in 1..Len(payouts) PROVE Rewards(Allocated(q))' = Rewards(Allocated(q))
  <2>1. PICK S \in SUBSET Sales : S = Allocated(q)
    BY DEF Allocated
  <2>2. Rewards(S)' = Rewards(S)
    BY <1>6, RewardsKept
  <2>3. Allocated(q)' = S
    BY <2>1 DEF Allocated
  <2> QED BY <2>1, <2>2, <2>3 DEF Rewards
<1>12. ASSUME NEW z \in Sales PROVE Settles(z)'
  <2>1. Settles(z) /\ alloc'[z] = alloc[z] /\ alloc[z] \in 0..Len(payouts)
    BY DEF IInv, ExactOK, PayoutsOK
  <2>2. CASE z \in Allocated(p)
    <3>1. alloc[z] = p
      BY <2>2 DEF Allocated
    <3>2. sales[z].creator = y.creator
      BY <1>1, <2>1, <3>1 DEF Settles
    <3>3. sales'[z].state = "PAID_OUT" /\ sales'[z].creator = y.creator
      BY <1>6, <2>2, <3>2
    <3>4. payouts'[alloc'[z]] = x /\ alloc'[z] # 0
      BY <1>5, <2>1, <3>1
    <3> QED BY <1>3, <3>3, <3>4 DEF Settles, Earned
  <2>3. CASE z \notin Allocated(p)
    <3>1. alloc[z] # p
      BY <2>3 DEF Allocated
    <3>2. alloc[z] # 0 => alloc[z] \in 1..Len(payouts)
      BY <1>5, <2>1
    <3> QED BY <1>5, <1>6, <2>1, <2>3, <3>1, <3>2 DEF Settles
  <2> QED BY <2>2, <2>3
<1>13. ExactOK'
  BY <1>5, <1>10, <1>11, <1>12 DEF IInv, ExactOK
<1>14. PaidIsMoved
  <2>1. ASSUME NEW q \in 1..Len(payouts), payouts[q].status = "REQUESTED", payouts'[q].status = "PAID"
        PROVE  payouts[q].amount =
                 Rewards({s \in Sales : sales[s].state = "AVAILABLE" /\ sales'[s].state = "PAID_OUT"})
    <3>1. q = p
      BY <1>10, <2>1
    <3>2. {s \in Sales : sales[s].state = "AVAILABLE" /\ sales'[s].state = "PAID_OUT"} = Allocated(p)
      BY <1>6 DEF Allocated
    <3> QED BY <3>1, <3>2 DEF IInv, ExactOK
  <2> QED BY <2>1 DEF PaidIsMoved
<1> QED BY <1>7, <1>8, <1>9, <1>13, <1>14, RequestsStay DEF IInv

(* Where no payout is settled, none is paid.                                 *)
LEMMA NonePaid ==
  ASSUME IInv, \A p \in 1..Len(payouts) : payouts'[p] = payouts[p]
  PROVE  PaidIsMoved
BY DEF PaidIsMoved

(* A payout is settled, or was.                                              *)
LEMMA SettlePayoutKeeps ==
  ASSUME IInv, SettlePayout
  PROVE  IInv' /\ PaidIsMoved
<1>1. PICK p \in 1..Len(payouts) :
        /\ \A s \in Allocated(p) : ~Locked(s)
        /\ \/ /\ payouts[p].status = "REQUESTED" /\ Settleable(p)
              /\ payouts' = [payouts EXCEPT ![p].status = "PAID"]
              /\ sales' = [s \in Sales |-> IF s \in Allocated(p) /\ sales[s].state = "AVAILABLE"
                                          THEN [sales[s] EXCEPT !.state = "PAID_OUT"] ELSE sales[s]]
           \/ payouts[p].status = "PAID" /\ UNCHANGED <<payouts, sales>>
  BY DEF SettlePayout
<1>2. CASE UNCHANGED <<payouts, sales>>
  <2>1. UNCHANGED tables /\ UNCHANGED ownerVars
    BY <1>2 DEF SettlePayout, tables
  <2>2. PaidIsMoved
    BY <1>2, NonePaid
  <2> QED BY <2>1, <2>2, TablesStay, RequestsStay DEF IInv
<1>3. CASE ~UNCHANGED <<payouts, sales>>
  BY <1>1, <1>3, SettleKeeps DEF SettlePayout
<1> QED BY <1>2, <1>3

-----------------------------------------------------------------------------
(* The invariant holds at first.                                             *)
LEMMA InitIInv ==
  ASSUME LedgerAssumption, Init
  PROVE  IInv
<1>1. CreatorsOK
  <2>1. NoCreator \in Creator /\ Made(NoCreator)
    BY EmptySeq DEF LedgerAssumption, NoCreator, Creator, Made
  <2> QED BY <2>1 DEF Init, CreatorsOK
<1>2. SalesOK
  <2>1. NoSale \in Sale /\ NoSale.state = "none" /\ NoSale.reward = 0
    BY DEF NoSale, Sale, States
  <2> QED BY <2>1 DEF Init, SalesOK, Fair, Earned
<1>3. LinksOK
  BY DEF Init, LinksOK, Link, NoLink
<1>4. PayoutsOK /\ Len(payouts) = 0
  BY EmptySeq DEF Init, PayoutsOK
<1>5. RequestsOK
  <2>1. NoRequest \in Request
    BY DEF NoRequest, Request
  <2> QED BY <2>1 DEF Init, RequestsOK, Steps, Asks
<1>6. ExactOK
  BY <1>4 DEF Init, ExactOK, Settles, NoSale
<1> QED BY <1>1, <1>2, <1>3, <1>4, <1>5, <1>6 DEF IInv

(* Every step keeps it, and pays a payout only with what it asks for.        *)
LEMMA NextIInv ==
  ASSUME LedgerAssumption, IInv, [Next]_vars
  PROVE  IInv' /\ PaidIsMoved
<1>1. CASE UNCHANGED vars
  <2>1. UNCHANGED tables /\ UNCHANGED ownerVars /\ UNCHANGED payouts
    BY <1>1 DEF vars, tables
  <2> QED BY <2>1, TablesStay, RequestsStay, NonePaid DEF IInv
<1>2. CASE CreateCreator \/ SetCreatorActive
  <2>1. UNCHANGED payouts
    BY <1>2 DEF CreateCreator, SetCreatorActive
  <2> QED BY <1>2, <2>1, CreatorStepKeeps, NonePaid
<1>3. CASE SettlePayout
  BY <1>3, SettlePayoutKeeps
<1>4. ASSUME NEW o \in Owners, UpdateCreator(o) \/ WriteVersion(o) \/ RequestPayout(o) \/ LockRewards(o)
      PROVE  IInv' /\ PaidIsMoved
  <2>1. UNCHANGED payouts
    BY <1>4 DEF UpdateCreator, WriteVersion, RequestPayout, LockRewards, tables
  <2> QED BY <1>4, <2>1, WriteVersionKeeps, OwnerStepKeeps, NonePaid
<1>5. ASSUME NEW o \in Owners, CommitPayout(o)
      PROVE  IInv' /\ PaidIsMoved
  <2>1. \A p \in 1..Len(payouts) : payouts'[p] = payouts[p]
    <3>1. PICK x : payouts' = Append(payouts, x) \/ UNCHANGED payouts
      BY <1>5 DEF CommitPayout
    <3>2. PICK T : T = Payout \cup {x}
      OBVIOUS
    <3>3. payouts \in Seq(T) /\ x \in T
      BY <3>2, SeqMonotonic DEF IInv, PayoutsOK
    <3> QED BY <3>1, <3>3, AppendProperties
  <2> QED BY <1>5, <2>1, CommitKeeps, NonePaid
<1>6. ASSUME NEW s \in Sales, Visit(s) \/ Quote(s) \/ Convert(s) \/ MarkAvailable(s) \/ Reverse(s)
      PROVE  IInv' /\ PaidIsMoved
  <2>1. UNCHANGED payouts
    BY <1>6 DEF Visit, Quote, Convert, MarkAvailable, Reverse
  <2> QED BY <1>6, <2>1, VisitKeeps, QuoteKeeps, SaleStepKeeps, NonePaid
<1> QED BY <1>1, <1>2, <1>3, <1>4, <1>5, <1>6 DEF Next

-----------------------------------------------------------------------------
(* What a payout request has read is still so when it commits.               *)
THEOREM Invariant == ASSUME LedgerAssumption PROVE Spec => []IInv
<1>1. Init => IInv
  BY InitIInv
<1>2. IInv /\ [Next]_vars => IInv'
  BY NextIInv
<1> QED BY <1>1, <1>2, PTL DEF Spec

(* The rows are of their types, and a sale names a version that is there.    *)
THEOREM TypeCorrect == ASSUME LedgerAssumption PROVE Spec => []LedgerTypeOK
<1>1. IInv => LedgerTypeOK
  <2> SUFFICES ASSUME IInv PROVE LedgerTypeOK
    OBVIOUS
  <2>1. ASSUME NEW c \in Creators
        PROVE  /\ creators[c].versions \in Seq(Version)
               /\ creators[c].code \in Codes <=> creators[c].versions # <<>>
               /\ creators[c].active => creators[c].versions # <<>>
    BY Versions DEF IInv, CreatorsOK, Made
  <2>2. ASSUME NEW s \in Sales
        PROVE  /\ sales[s].state \in States
               /\ sales[s].state # "none" => sales[s].version \in DOMAIN creators[sales[s].creator].versions
               /\ sales[s].reward > 0 <=> sales[s].state \notin {"none", "quoted"}
    <3>1. PICK x \in Sale : x = sales[s] /\ Fair(x)
      BY DEF IInv, SalesOK
    <3>2. x.state # "none" => x.version \in DOMAIN creators[x.creator].versions
      BY <3>1, Versions, LenProperties DEF Fair, Names, IInv
    <3> QED BY <3>1, <3>2 DEF Fair, Sale, States, Earned
  <2>3. ASSUME NEW p \in 1..Len(payouts)
        PROVE  payouts[p].status \in {"REQUESTED", "PAID"} /\ payouts[p].amount > 0
    <3>1. payouts[p] \in Payout
      BY ElementOfSeq DEF IInv, PayoutsOK
    <3> QED BY <3>1 DEF Payout, IInv, ExactOK
  <2> QED BY <2>1, <2>2, <2>3 DEF IInv, PayoutsOK, RequestsOK, LedgerTypeOK
<1> QED BY <1>1, Invariant, PTL

(* For any number of creators, sales and requests, a payout asks for exactly *)
(* the rewards allocated to it, and none is paid out otherwise.              *)
THEOREM PayoutsStayBalanced == ASSUME LedgerAssumption PROVE Spec => []PayoutsBalance
<1>1. IInv => PayoutsBalance
  <2> SUFFICES ASSUME IInv PROVE PayoutsBalance
    OBVIOUS
  <2>1. ASSUME NEW p \in 1..Len(payouts), NEW s \in Allocated(p)
        PROVE  /\ sales[s].creator = payouts[p].creator
               /\ payouts[p].status = "PAID" => sales[s].state \in {"PAID_OUT", "REVERSED"}
    <3>1. s \in Sales /\ alloc[s] = p /\ p # 0
      BY LenProperties DEF Allocated, IInv, PayoutsOK
    <3> QED BY <3>1 DEF IInv, ExactOK, Settles
  <2> QED BY <2>1 DEF IInv, ExactOK, Settles, PayoutsBalance
<1> QED BY <1>1, Invariant, PTL

(* A creator earns what the rules gave when the customer was quoted.         *)
THEOREM RewardsAreAsQuoted == ASSUME LedgerAssumption PROVE Spec => []RewardAsQuoted
<1>1. IInv => RewardAsQuoted
  <2> SUFFICES ASSUME IInv, NEW s \in Sales, sales[s].state \notin {"none", "quoted"}
               PROVE  sales[s].reward = sales[s].promised
    BY DEF RewardAsQuoted
  <2>1. sales[s] \in Sale /\ Fair(sales[s])
    BY DEF IInv, SalesOK
  <2> QED BY <2>1 DEF Sale, States, Fair, Earned
<1> QED BY <1>1, Invariant, PTL

(* The step that settles a payout moves rewards worth its amount.            *)
THEOREM SettledIsMoved == ASSUME LedgerAssumption PROVE Spec => [][PaidIsMoved]_vars
<1>1. IInv /\ [Next]_vars => [PaidIsMoved]_vars
  BY NextIInv
<1> QED BY <1>1, Invariant, PTL DEF Spec

(* The books balance at every moment, each reward is the promised one, and   *)
(* the step that pays moves what the payout was requested for.               *)
THEOREM PayoutsExact == ASSUME LedgerAssumption PROVE Spec => PayoutsAreExact
BY TypeCorrect, PayoutsStayBalanced, RewardsAreAsQuoted, SettledIsMoved, PTL DEF PayoutsAreExact

-----------------------------------------------------------------------------
(* KeyRotation.                                                              *)

BatchRecord ==
  [step : {"idle", "open", "replace", "count"}, rows : SUBSET Answers,
   row : Answers \cup {None}, opened : Answers \cup {None}]

RotationTypeOK ==
  /\ sealed \in [Answers -> {"none", "v1", "v2"}]
  /\ text \in [Answers -> Answers \cup {None}]
  /\ deployed \in BOOLEAN
  /\ keys \in SUBSET {"v1", "v2"}
  /\ batch \in [Batches -> BatchRecord]
  /\ reported \in Nat

(* What a batch holds of the answers it listed, and of the one it opened.    *)
Held(r) ==
  /\ r.step # "idle" => deployed
  /\ \A a \in r.rows : sealed[a] # "none"
  /\ r.step = "replace" => r.row \in Answers /\ r.opened = r.row

(* A report counts every answer under v1 of today, so a report of none says  *)
(* that there is none.                                                       *)
RotationInv ==
  /\ RotationTypeOK
  /\ AnswersStayReadable
  /\ \A b \in Batches : Held(batch[b])
  /\ deployed => "v2" \in keys /\ Cardinality(V1) <= reported

(* The answers still under v1 can be counted, and fewer of them count less.  *)
LEMMA V1Counts ==
  ASSUME RotationAssumption
  PROVE  /\ IsFiniteSet(V1) /\ Cardinality(V1) \in Nat
         /\ Cardinality(V1) <= Cardinality(Answers)
         /\ (Cardinality(V1) = 0) <=> (V1 = {})
<1>1. V1 \subseteq Answers
  BY DEF V1
<1> QED BY <1>1, FS_Subset, FS_CardinalityType, FS_EmptySet DEF RotationAssumption

(* The number of answers under the old key never grows when no answer enters it. *)
LEMMA V1Shrinks ==
  ASSUME RotationAssumption, V1' \subseteq V1
  PROVE  Cardinality(V1') <= Cardinality(V1) /\ Cardinality(V1') \in Nat
<1>1. IsFiniteSet(V1)
  BY V1Counts
<1>2. IsFiniteSet(V1') /\ Cardinality(V1') <= Cardinality(V1)
  BY <1>1, FS_Subset
<1> QED BY <1>2, FS_CardinalityType

(* The least of two reports is one of them.                                  *)
LEMMA LeastReport ==
  ASSUME NEW m \in Nat, NEW n \in Nat
  PROVE  Min({m, n}) \in {m, n}
<1>1. \E x \in {m, n} : \A y \in {m, n} : x <= y
  BY SMT
<1> QED BY <1>1 DEF Min

(* The invariant of the rotation holds of its initial states.                *)
LEMMA RotationStarts == ASSUME RotationAssumption PROVE RotationInit => RotationInv
<1> SUFFICES ASSUME RotationInit PROVE RotationInv
  OBVIOUS
<1>1. reported \in Nat
  BY FS_CardinalityType DEF RotationInit, RotationAssumption
<1> QED BY <1>1 DEF RotationInit, RotationInv, RotationTypeOK, AnswersStayReadable, Held, NoBatch, BatchRecord

(* An answer is saved under a key the owner still configures.                *)
LEMMA SaveAnswerKeeps ==
  ASSUME RotationAssumption, RotationInv, NEW a \in Answers, SaveAnswer(a)
  PROVE  RotationInv'
<1>1. PICK k \in (IF deployed THEN {"v2"} ELSE {"v1", "v2"}) \cap keys : sealed' = [sealed EXCEPT ![a] = k]
  BY DEF SaveAnswer
<1> USE DEF RotationInv, RotationTypeOK
<1>2. RotationTypeOK'
  BY <1>1 DEF SaveAnswer
<1>3. AnswersStayReadable'
  BY <1>1 DEF SaveAnswer, AnswersStayReadable, Readable
<1>4. \A b \in Batches : Held(batch[b])'
  BY <1>1 DEF SaveAnswer, Held, BatchRecord
<1>5. deployed' => "v2" \in keys' /\ Cardinality(V1') <= reported'
  <2> SUFFICES ASSUME deployed PROVE "v2" \in keys /\ Cardinality(V1') <= reported
    BY DEF SaveAnswer
  <2>1. V1' \subseteq V1
    BY <1>1 DEF V1
  <2> QED BY <2>1, V1Shrinks, V1Counts DEF SaveAnswer
<1> QED BY <1>2, <1>3, <1>4, <1>5

(* The owner adds the new key, deploys, and retires the old one after a zero. *)
LEMMA OwnerKeeps ==
  ASSUME RotationAssumption, RotationInv, Configure \/ Deploy \/ RetireKey
  PROVE  RotationInv'
<1> USE DEF RotationInv, RotationTypeOK
<1>1. CASE Configure
  BY <1>1 DEF Configure, AnswersStayReadable, Readable, Held, V1
<1>2. CASE Deploy
  <2>1. Cardinality(Answers) \in Nat
    BY FS_CardinalityType DEF RotationAssumption
  <2>2. Cardinality(V1') <= reported'
    BY <1>2, V1Counts DEF Deploy, V1
  <2> QED BY <1>2, <2>1, <2>2 DEF Deploy, AnswersStayReadable, Readable, Held
<1>3. CASE RetireKey
  <2>1. V1 = {}
    BY <1>3, V1Counts DEF RetireKey
  <2>2. AnswersStayReadable'
    BY <1>3, <2>1 DEF RetireKey, AnswersStayReadable, Readable, V1
  <2> QED BY <1>3, <2>2 DEF RetireKey, Held, V1
<1> QED BY <1>1, <1>2, <1>3

(* A step that changes one batch, and nothing of what it holds.              *)
LEMMA BatchMoves ==
  ASSUME RotationInv, NEW b \in Batches, NEW r \in BatchRecord, batch' = [batch EXCEPT ![b] = r],
         Held(r), UNCHANGED <<sealed, text, deployed, keys, reported>>
  PROVE  RotationInv'
BY DEF RotationInv, RotationTypeOK, AnswersStayReadable, Readable, Held, V1

(* A batch lists rows of the old version.                                    *)
LEMMA ListKeeps ==
  ASSUME RotationInv, NEW b \in Batches, List(b)
  PROVE  RotationInv'
<1>1. PICK listed \in SUBSET V1 :
        batch' = [batch EXCEPT ![b] =
          [NoBatch EXCEPT !.step = IF listed = {} THEN "count" ELSE "open", !.rows = listed]]
  BY DEF List
<1> DEFINE r == [NoBatch EXCEPT !.step = IF listed = {} THEN "count" ELSE "open", !.rows = listed]
<1>2. r \in BatchRecord /\ Held(r)
  BY DEF NoBatch, BatchRecord, Held, V1, List
<1> QED BY <1>1, <1>2, BatchMoves DEF List

(* A batch opens one row with the old key, or ends when a key is missing.    *)
LEMMA OpenKeeps ==
  ASSUME RotationInv, NEW b \in Batches, Open(b)
  PROVE  RotationInv'
<1>1. PICK a \in batch[b].rows :
        batch' = IF {"v1", "v2"} \subseteq keys
                 THEN [batch EXCEPT ![b].step = "replace", ![b].row = a, ![b].opened = text[a]]
                 ELSE [batch EXCEPT ![b] = [NoBatch EXCEPT !.step = "count"]]
  BY DEF Open
<1>2. batch[b] \in BatchRecord /\ Held(batch[b]) /\ a \in Answers /\ text[a] = a /\ deployed
  BY <1>1 DEF RotationInv, RotationTypeOK, BatchRecord, Held, AnswersStayReadable, Readable, Open
<1> DEFINE p == [batch[b] EXCEPT !.step = "replace", !.row = a, !.opened = text[a]]
           q == [NoBatch EXCEPT !.step = "count"]
<1>3. p \in BatchRecord /\ Held(p) /\ q \in BatchRecord /\ Held(q)
  BY <1>2 DEF BatchRecord, Held, NoBatch
<1>4. batch' = [batch EXCEPT ![b] = p] \/ batch' = [batch EXCEPT ![b] = q]
  BY <1>1 DEF RotationInv, RotationTypeOK
<1> QED BY <1>3, <1>4, BatchMoves DEF Open

(* A row that is replaced is sealed again with the answer it held.           *)
LEMMA ReplaceKeeps ==
  ASSUME RotationAssumption, RotationInv, NEW b \in Batches, Replace(b)
  PROVE  RotationInv'
<1> DEFINE a == batch[b].row
           p == [step |-> IF Rest(b) = {} THEN "count" ELSE "open", rows |-> Rest(b),
                 row |-> None, opened |-> None]
           q == [NoBatch EXCEPT !.step = "count"]
<1>1. batch[b] \in BatchRecord /\ Held(batch[b]) /\ a \in Answers /\ batch[b].opened = a /\ deployed
  BY DEF RotationInv, RotationTypeOK, Held, Replace
<1>2. p \in BatchRecord /\ Held(p) /\ q \in BatchRecord /\ Held(q)
  BY <1>1 DEF BatchRecord, Held, NoBatch, Rest
<1>3. CASE batch' = [batch EXCEPT ![b] = p] /\ sealed[a] = "v1"
           /\ sealed' = [sealed EXCEPT ![a] = "v2"] /\ text' = [text EXCEPT ![a] = batch[b].opened]
  <2> USE DEF RotationInv
  <2>1. RotationTypeOK'
    BY <1>1, <1>2, <1>3 DEF RotationTypeOK, Replace
  <2>2. AnswersStayReadable'
    BY <1>1, <1>3 DEF RotationTypeOK, AnswersStayReadable, Readable, Replace
  <2>3. \A c \in Batches : Held(batch[c])'
    BY <1>1, <1>2, <1>3 DEF RotationTypeOK, Held, BatchRecord, Replace
  <2>4. Cardinality(V1') <= reported
    <3>1. V1' \subseteq V1
      BY <1>3 DEF V1, RotationTypeOK
    <3> QED BY <1>1, <3>1, V1Shrinks, V1Counts DEF RotationTypeOK
  <2> QED BY <1>1, <2>1, <2>2, <2>3, <2>4 DEF Replace
<1>4. CASE /\ batch' = [batch EXCEPT ![b] = p] \/ batch' = [batch EXCEPT ![b] = q]
           /\ UNCHANGED <<sealed, text>>
  BY <1>2, <1>4, BatchMoves DEF Replace
<1> QED BY <1>3, <1>4 DEF Replace

(* A batch counts what is left: the report is at most what it counted.       *)
LEMMA CountKeeps ==
  ASSUME RotationAssumption, RotationInv, NEW b \in Batches, Count(b)
  PROVE  RotationInv'
<1>1. Cardinality(V1) \in Nat /\ reported \in Nat
  BY V1Counts DEF RotationInv, RotationTypeOK
<1>2. reported' \in {reported, Cardinality(V1)}
  BY <1>1, LeastReport DEF Count, Remaining
<1>3. deployed => Cardinality(V1) <= reported'
  BY <1>1, <1>2 DEF RotationInv
<1>4. batch' = [batch EXCEPT ![b] = NoBatch] /\ NoBatch \in BatchRecord /\ Held(NoBatch)
  BY DEF Count, NoBatch, BatchRecord, Held
<1> QED BY <1>1, <1>2, <1>3, <1>4
     DEF Count, RotationInv, RotationTypeOK, AnswersStayReadable, Readable, Held, V1

(* The inductive invariant of the change of keys: a batch reports no fewer   *)
(* answers than are left under v1, and seals again what it has opened        *)
(* (QuizEncryptionRotationService.rotateBatch).                              *)
THEOREM RotationInvariant ==
  ASSUME RotationAssumption
  PROVE  RotationSpec => []RotationInv
<1>1. RotationInit => RotationInv
  BY RotationStarts
<1>2. ASSUME RotationInv, [RotationNext]_rotationVars PROVE RotationInv'
  <2>1. CASE UNCHANGED rotationVars
    BY <1>2, <2>1 DEF rotationVars, RotationInv, RotationTypeOK, AnswersStayReadable, Readable, Held, V1
  <2> QED BY <1>2, <2>1, SaveAnswerKeeps, OwnerKeeps, ListKeeps, OpenKeeps, ReplaceKeeps, CountKeeps
       DEF RotationNext, BatchStep
<1> QED BY <1>1, <1>2, PTL DEF RotationSpec

(* However many batches overlap the writers and each other, an answer that   *)
(* is stored is sealed under a key the runtime has, and is the customer's.   *)
THEOREM AnswersAreReadable ==
  ASSUME RotationAssumption
  PROVE  RotationSpec => []AnswersStayReadable
<1>1. RotationInv => AnswersStayReadable
  BY DEF RotationInv
<1> QED BY <1>1, RotationInvariant, PTL

-----------------------------------------------------------------------------
(* PaidOrders.                                                               *)

OrderIssue == [code : IssueCodes, order : Orders, event : Events, quote : Quotes]
CartRecord == [quote : Quotes \cup {None}, step : {"idle", "variant", "cart", "advance"}]
NoQuote == {None, Unknown, "none"}
EventRecord == [order : Orders \cup {None, Sample}, quote : Quotes \cup NoQuote, test : BOOLEAN]
Marks == {"RECEIVED", "IGNORED_TEST", "FAILED_TERMINAL", "FAILED_RETRYABLE"}
DeliveryRecord ==
  [event : Events \cup {None}, step : {"idle", "record", "look", "reserve", "mark"}, left : Int,
   mark : Marks, claimable : BOOLEAN, seen : SUBSET OrderIssue]

OrdersTypeOK ==
  /\ stage \in [Sessions -> {"ready", "started"}]
  /\ cart \in [CartTabs -> CartRecord]
  /\ cartLinks \in SUBSET Quotes
  /\ orders \in [Orders -> Quotes \cup NoQuote]
  /\ event \in [Events -> EventRecord]
  /\ accepted \in [Events -> SUBSET (Marks \cup AnsweredWith200)]
  /\ inbox \in [Events -> Marks \cup {"none", "PROCESSING", "PROCESSED"}]
  /\ issues \in SUBSET OrderIssue
  /\ delivery \in [Deliveries -> DeliveryRecord]

(* A session has one quote whose cart was answered, and it was moved first.  *)
CartsQuoted == \A t \in CartTabs : cart[t].step # "idle" => cart[t].quote \in Quotes
OneLinkPerSession ==
  /\ \A q \in cartLinks : stage[SessionOf(q)] = "started"
  /\ \A q, r \in cartLinks : SessionOf(q) = SessionOf(r) => q = r

(* What the provider's orders and events say of the quotes.                  *)
OrdersOfLinks == \A o \in Orders : orders[o] \in cartLinks \cup NoQuote
EventsOfOrders ==
  \A e \in Events : Emitted(e) /\ ~event[e].test =>
    event[e].order \in Orders /\ event[e].quote = orders[event[e].order] /\ event[e].quote # "none"

UntoldUntilEmitted == \A e \in Events : ~Emitted(e) => inbox[e] = "none" /\ accepted[e] = {}

(* The registry's Issues, one per quote and code, each of its event.         *)
IssuesOfEvents ==
  \A i \in issues : event[i.event] = [order |-> i.order, quote |-> i.quote, test |-> FALSE]
KeysAreUnique == \A i, j \in issues : i # j => i.quote # j.quote /\ i.code # j.code

(* What a delivery knows of its event, and of the Issues there were.         *)
Informed(r) ==
  LET e == r.event IN
  /\ r.step # "idle" => e \in Events /\ Emitted(e)
  /\ r.step \in {"look", "reserve"} => ~event[e].test /\ event[e].quote \in Quotes
  /\ r.step = "mark" => r.mark \in {"FAILED_RETRYABLE", "IGNORED_TEST"} \/ event[e].quote \notin Quotes
  /\ r.seen \subseteq issues

OrdersInv ==
  /\ OrdersTypeOK
  /\ CartsQuoted /\ OneLinkPerSession
  /\ OrdersOfLinks /\ EventsOfOrders
  /\ IssuesOfEvents /\ KeysAreUnique
  /\ \A d \in Deliveries : Informed(delivery[d])
  /\ UntoldUntilEmitted /\ ProcessedHasIssue

(* The idle delivery is a delivery record that has seen no issue.            *)
LEMMA NoDeliveryIsOne ==
  ASSUME OrdersAssumption
  PROVE  NoDelivery \in DeliveryRecord /\ NoDelivery.step = "idle" /\ NoDelivery.seen = {}
BY DEF OrdersAssumption, NoDelivery, DeliveryRecord, Marks

(* The invariant of the paid orders holds of their initial states.           *)
LEMMA OrdersStart == ASSUME OrdersAssumption PROVE OrdersInit => OrdersInv
<1> SUFFICES ASSUME OrdersInit PROVE OrdersInv
  OBVIOUS
<1> USE DEF OrdersInit
<1>1. delivery \in [Deliveries -> DeliveryRecord] /\ \A d \in Deliveries : delivery[d] = NoDelivery
  BY NoDeliveryIsOne
<1>2. NoEvent \in EventRecord
  BY DEF NoEvent, NoQuote, EventRecord
<1>3. OrdersTypeOK
  BY <1>1, <1>2 DEF OrdersTypeOK, CartRecord, NoCart, NoQuote, Marks
<1>4. CartsQuoted /\ OneLinkPerSession /\ OrdersOfLinks
  BY DEF CartsQuoted, OneLinkPerSession, OrdersOfLinks, NoCart, NoQuote
<1>5. EventsOfOrders
  BY DEF EventsOfOrders, Emitted
<1>6. IssuesOfEvents /\ KeysAreUnique
  BY DEF IssuesOfEvents, KeysAreUnique
<1>7. \A d \in Deliveries : Informed(delivery[d])
  BY <1>1, NoDeliveryIsOne DEF Informed
<1>8. UntoldUntilEmitted /\ ProcessedHasIssue
  BY DEF UntoldUntilEmitted, ProcessedHasIssue
<1> QED BY <1>3, <1>4, <1>5, <1>6, <1>7, <1>8 DEF OrdersInv

(* The checkout: only Advance answers a cart, and only of a session that was *)
(* ready until now.                                                          *)
LEMMA CartKeeps ==
  ASSUME OrdersAssumption, OrdersInv, NEW t \in CartTabs,
         (\E q \in Quotes : StartCheckout(t, q)) \/ Lookup(t) \/ CreateCart(t)
  PROVE  OrdersInv'
<1>1. PICK c \in CartRecord :
        /\ cart' = [cart EXCEPT ![t] = c]
        /\ c.step # "idle" => c.quote \in Quotes
        /\ UNCHANGED <<stage, cartLinks, provider_vars, accepted, inbox, issues, delivery>>
  <2> DEFINE Good(c) == c \in CartRecord
                        /\ (c.step # "idle" => c.quote \in Quotes)
  <2>1. CASE \E q \in Quotes : StartCheckout(t, q)
    <3>1. PICK q \in Quotes : StartCheckout(t, q)
      BY <2>1
    <3>2. Good([quote |-> q, step |-> "variant"])
      BY DEF CartRecord
    <3> QED BY <3>1, <3>2 DEF StartCheckout
  <2>2. ASSUME NEW s \in {"cart", "advance"}, cart[t].step # "idle", cart' = [cart EXCEPT ![t].step = s]
        PROVE  Good([cart[t] EXCEPT !.step = s]) /\ cart' = [cart EXCEPT ![t] = [cart[t] EXCEPT !.step = s]]
    BY <2>2 DEF OrdersInv, OrdersTypeOK, CartsQuoted, CartRecord
  <2>3. Good(NoCart)
    BY DEF NoCart, CartRecord
  <2>4. CASE Lookup(t)
    <3>1. CASE cart' = [cart EXCEPT ![t].step = "cart"]
      BY <2>2, <2>4, <3>1 DEF Lookup
    <3>2. CASE cart' = [cart EXCEPT ![t] = NoCart]
      BY <2>3, <2>4, <3>2 DEF Lookup
    <3> QED BY <2>4, <3>1, <3>2 DEF Lookup
  <2>5. CASE CreateCart(t)
    <3>1. CASE cart' = [cart EXCEPT ![t].step = "advance"]
      BY <2>2, <2>5, <3>1 DEF CreateCart
    <3>2. CASE cart' = [cart EXCEPT ![t] = NoCart]
      BY <2>3, <2>5, <3>2 DEF CreateCart
    <3> QED BY <2>5, <3>1, <3>2 DEF CreateCart
  <2> QED BY <2>1, <2>4, <2>5
<1>2. OrdersTypeOK'
  BY <1>1 DEF OrdersInv, OrdersTypeOK, provider_vars
<1>3. CartsQuoted'
  BY <1>1 DEF OrdersInv, OrdersTypeOK, CartsQuoted
<1> QED BY <1>1, <1>2, <1>3 DEF OrdersInv, OneLinkPerSession, OrdersOfLinks, EventsOfOrders, Emitted,
     IssuesOfEvents, KeysAreUnique, Informed, UntoldUntilEmitted, ProcessedHasIssue, provider_vars

(* A tab's cart advances through the provider's checkout of its own quote.   *)
LEMMA AdvanceKeeps ==
  ASSUME OrdersAssumption, OrdersInv, NEW t \in CartTabs, Advance(t)
  PROVE  OrdersInv'
<1> DEFINE q == cart[t].quote
           x == SessionOf(q)
<1>1. q \in Quotes /\ x \in Sessions
  BY DEF Advance, OrdersInv, CartsQuoted, OrdersAssumption
<1>2. /\ cart' = [cart EXCEPT ![t] = NoCart]
      /\ UNCHANGED <<provider_vars, accepted, inbox, issues, delivery>>
      /\ \/ UNCHANGED <<stage, cartLinks>>
         \/ /\ stage[x] = "ready" /\ stage' = [stage EXCEPT ![x] = "started"]
            /\ cartLinks' \in {cartLinks, cartLinks \cup {q}}
  BY DEF Advance, StillReady
<1> HIDE DEF q, x
<1>3. OrdersTypeOK' /\ CartsQuoted'
  BY <1>1, <1>2 DEF OrdersInv, OrdersTypeOK, CartsQuoted, NoCart, CartRecord, provider_vars
<1>4. OneLinkPerSession' /\ cartLinks \subseteq cartLinks'
  <2>1. CASE UNCHANGED <<stage, cartLinks>>
    BY <2>1 DEF OrdersInv, OneLinkPerSession
  <2>2. CASE stage[x] = "ready" /\ stage' = [stage EXCEPT ![x] = "started"]
             /\ cartLinks' \in {cartLinks, cartLinks \cup {q}}
    <3>1. x = SessionOf(q) /\ \A r \in cartLinks : SessionOf(r) # x /\ SessionOf(r) \in Sessions
      BY <2>2 DEF OrdersInv, OrdersTypeOK, OneLinkPerSession, OrdersAssumption, x
    <3>2. \A r \in cartLinks' : stage'[SessionOf(r)] = "started"
      BY <1>1, <2>2, <3>1 DEF OrdersInv, OrdersTypeOK, OneLinkPerSession
    <3>3. \A r, s \in cartLinks' : SessionOf(r) = SessionOf(s) => r = s
      BY <2>2, <3>1 DEF OrdersInv, OneLinkPerSession
    <3> QED BY <2>2, <3>2, <3>3 DEF OneLinkPerSession
  <2> QED BY <1>2, <2>1, <2>2
<1>5. OrdersOfLinks'
  BY <1>2, <1>4 DEF OrdersInv, OrdersOfLinks, provider_vars
<1> QED BY <1>2, <1>3, <1>4, <1>5 DEF OrdersInv, EventsOfOrders, Emitted, IssuesOfEvents, KeysAreUnique,
     Informed, UntoldUntilEmitted, ProcessedHasIssue, provider_vars

(* The provider takes an order of a cart, and reports what it took.          *)
LEMMA PlaceOrderKeeps ==
  ASSUME OrdersAssumption, OrdersInv, NEW o \in Orders, PlaceOrder(o)
  PROVE  OrdersInv'
<1>1. PICK q \in cartLinks \cup {None, Unknown} : orders' = [orders EXCEPT ![o] = q]
  BY DEF PlaceOrder
<1>2. /\ orders[o] = "none" /\ UNCHANGED <<sale_vars, event, accepted, inbox, issues, delivery>>
      /\ q \in cartLinks \cup NoQuote
  BY DEF PlaceOrder, NoQuote
<1>3. OrdersTypeOK'
  BY <1>1, <1>2 DEF OrdersInv, OrdersTypeOK, sale_vars
<1>4. OrdersOfLinks'
  BY <1>1, <1>2 DEF OrdersInv, OrdersTypeOK, OrdersOfLinks, sale_vars
<1>5. EventsOfOrders'
  BY <1>1, <1>2 DEF OrdersInv, OrdersTypeOK, EventsOfOrders, Emitted
<1> QED BY <1>2, <1>3, <1>4, <1>5 DEF OrdersInv, CartsQuoted, OneLinkPerSession, Emitted, IssuesOfEvents,
     KeysAreUnique, Informed, UntoldUntilEmitted, ProcessedHasIssue, sale_vars

(* The provider emits an event: a test, or an order that was paid.           *)
LEMMA EmitKeeps ==
  ASSUME OrdersAssumption, OrdersInv, NEW e \in Events, Emit(e)
  PROVE  OrdersInv'
<1>1. PICK v \in EventRecord :
        /\ event' = [event EXCEPT ![e] = v]
        /\ ~v.test => v.order \in Orders /\ v.quote = orders[v.order] /\ v.quote # "none"
  <2>1. CASE \E o \in Orders :
               /\ orders[o] # "none"
               /\ event' = [event EXCEPT ![e] = [order |-> o, quote |-> orders[o], test |-> FALSE]]
    <3>1. PICK o \in Orders :
            /\ orders[o] # "none"
            /\ event' = [event EXCEPT ![e] = [order |-> o, quote |-> orders[o], test |-> FALSE]]
      BY <2>1
    <3>2. [order |-> o, quote |-> orders[o], test |-> FALSE] \in EventRecord
      BY DEF OrdersInv, OrdersTypeOK, EventRecord
    <3> QED BY <3>1, <3>2
  <2>2. CASE \E q \in Quotes : event' = [event EXCEPT ![e] = [order |-> Sample, quote |-> q, test |-> TRUE]]
    <3>1. PICK q \in Quotes : event' = [event EXCEPT ![e] = [order |-> Sample, quote |-> q, test |-> TRUE]]
      BY <2>2
    <3>2. [order |-> Sample, quote |-> q, test |-> TRUE] \in EventRecord
      BY DEF EventRecord
    <3> QED BY <3>1, <3>2
  <2> QED BY <2>1, <2>2 DEF Emit
<1>2. event[e] = NoEvent /\ UNCHANGED <<sale_vars, orders, accepted, inbox, issues, delivery>>
  BY DEF Emit, Emitted
<1>3. OrdersTypeOK'
  BY <1>1, <1>2 DEF OrdersInv, OrdersTypeOK, sale_vars
<1>4. EventsOfOrders'
  BY <1>1, <1>2 DEF OrdersInv, OrdersTypeOK, EventsOfOrders, Emitted
<1>5. \A f \in Events : Emitted(f) => f # e /\ event'[f] = event[f]
  BY <1>1, <1>2 DEF OrdersInv, OrdersTypeOK, Emitted
<1>6. IssuesOfEvents'
  <2> SUFFICES ASSUME NEW i \in issues
               PROVE  event'[i.event] = [order |-> i.order, quote |-> i.quote, test |-> FALSE]
    BY <1>2 DEF IssuesOfEvents
  <2>1. i.event \in Events /\ i.quote # None
    BY DEF OrdersInv, OrdersTypeOK, OrderIssue, OrdersAssumption
  <2>2. event[i.event] = [order |-> i.order, quote |-> i.quote, test |-> FALSE]
    BY DEF OrdersInv, IssuesOfEvents
  <2>3. Emitted(i.event)
    BY <2>1, <2>2 DEF Emitted, NoEvent
  <2> QED BY <1>5, <2>1, <2>2, <2>3
<1>7. \A d \in Deliveries : Informed(delivery[d])'
  <2> TAKE d \in Deliveries
  <2>1. delivery[d].step = "idle" \/ (Emitted(delivery[d].event) /\ delivery[d].event \in Events)
    BY DEF OrdersInv, Informed
  <2>2. Informed(delivery[d])
    BY DEF OrdersInv
  <2>3. CASE delivery[d].step = "idle"
    BY <1>2, <2>2, <2>3 DEF Informed
  <2>4. CASE Emitted(delivery[d].event) /\ delivery[d].event \in Events
    <3>1. event'[delivery[d].event] = event[delivery[d].event]
      BY <1>5, <2>4
    <3> QED BY <1>2, <2>2, <2>4, <3>1 DEF Informed, Emitted
  <2> QED BY <2>1, <2>3, <2>4
<1>8. UntoldUntilEmitted' /\ ProcessedHasIssue'
  <2>1. inbox[e] = "none" /\ accepted[e] = {}
    BY <1>2 DEF OrdersInv, UntoldUntilEmitted, Emitted
  <2>2. \A f \in Events \ {e} : event'[f] = event[f]
    BY <1>1 DEF OrdersInv, OrdersTypeOK
  <2> QED BY <1>2, <2>1, <2>2 DEF OrdersInv, Emitted, UntoldUntilEmitted, ProcessedHasIssue
<1> QED BY <1>2, <1>3, <1>4, <1>6, <1>7, <1>8 DEF OrdersInv, CartsQuoted, OneLinkPerSession, OrdersOfLinks,
     KeysAreUnique, sale_vars

(* A paid order carries the quote of a cart, so its session was started, and *)
(* an Issue found for the event is of its quote.                             *)
LEMMA PaidIsStarted ==
  ASSUME OrdersAssumption, OrdersInv,
         NEW e \in Events, Emitted(e), ~event[e].test, event[e].quote \in Quotes
  PROVE  /\ event[e].order \in Orders /\ event[e].quote = orders[event[e].order]
         /\ Truth(event[e].quote)
<1>1. /\ event[e].order \in Orders /\ event[e].quote = orders[event[e].order]
      /\ event[e].quote # "none"
  BY DEF OrdersInv, EventsOfOrders
<1>2. event[e].quote \in cartLinks
  BY <1>1 DEF OrdersInv, OrdersOfLinks, NoQuote, OrdersAssumption
<1> QED BY <1>1, <1>2 DEF OrdersInv, OneLinkPerSession, Truth

(* What the look-up finds among the issues answers the quote of the event.   *)
LEMMA FoundIsOfQuote ==
  ASSUME OrdersAssumption, OrdersInv, NEW seen, seen \subseteq issues,
         NEW e \in Events, Emitted(e), ~event[e].test, event[e].quote \in Quotes, Existing(seen, e) # {}
  PROVE  Issued(e)
<1>1. PICK i \in issues : i.order = event[e].order \/ i.event = e \/ i.quote = event[e].quote
  BY DEF Existing
<1>2. /\ i.event \in Events /\ i.quote \in Quotes
      /\ event[i.event] = [order |-> i.order, quote |-> i.quote, test |-> FALSE]
  BY DEF OrdersInv, OrdersTypeOK, OrderIssue, IssuesOfEvents
<1>3. Emitted(i.event)
  BY <1>2 DEF Emitted, NoEvent, OrdersAssumption
<1>4. i.quote = orders[i.order]
  BY <1>2, <1>3, PaidIsStarted
<1>5. event[e].quote = orders[event[e].order]
  BY PaidIsStarted
<1>6. i.quote = event[e].quote
  BY <1>1, <1>2, <1>4, <1>5
<1> QED BY <1>6 DEF Issued

(* A delivery goes on, its event's row and its answers with it.              *)
LEMMA DeliveryGoes ==
  ASSUME OrdersInv, NEW d \in Deliveries, NEW r \in DeliveryRecord, Informed(r),
         delivery' = [delivery EXCEPT ![d] = r], UNCHANGED <<sale_vars, provider_vars>>,
         issues \subseteq issues', issues' \subseteq OrderIssue, IssuesOfEvents', KeysAreUnique',
         NEW e \in Events, Emitted(e),
         NEW s \in Marks \cup {"none", "PROCESSING", "PROCESSED"}, inbox' = [inbox EXCEPT ![e] = s],
         NEW a \in SUBSET (Marks \cup AnsweredWith200), accepted' = [accepted EXCEPT ![e] = a],
         \/ s \in {inbox[e]} \cup Marks \cup {"PROCESSING"} /\ a \subseteq accepted[e] \cup {"IGNORED_TEST"}
         \/ s \in Marks /\ event[e].quote \notin Quotes
         \/ \E i \in issues' : i.quote = event[e].quote
  PROVE  OrdersInv'
<1>1. OrdersTypeOK'
  BY DEF OrdersInv, OrdersTypeOK, sale_vars, provider_vars
<1>2. CartsQuoted' /\ OneLinkPerSession' /\ OrdersOfLinks' /\ EventsOfOrders'
  BY DEF OrdersInv, CartsQuoted, OneLinkPerSession, OrdersOfLinks, EventsOfOrders, Emitted, sale_vars,
         provider_vars
<1>3. \A x \in Deliveries : Informed(delivery[x])'
  <2> TAKE x \in Deliveries
  <2>1. delivery'[x] = r \/ delivery'[x] = delivery[x]
    BY DEF OrdersInv, OrdersTypeOK
  <2>2. Informed(delivery'[x])
    BY <2>1 DEF OrdersInv
  <2> QED BY <2>2 DEF Informed, Emitted, provider_vars
<1>4. \A f \in Events \ {e} : inbox'[f] = inbox[f] /\ accepted'[f] = accepted[f]
  BY DEF OrdersInv, OrdersTypeOK
<1>5. UntoldUntilEmitted'
  BY <1>4 DEF OrdersInv, UntoldUntilEmitted, Emitted, provider_vars
<1>6. ProcessedHasIssue'
  <2> SUFFICES ASSUME NEW f \in Events, event[f].quote \in Quotes,
                      inbox'[f] = "PROCESSED" \/ accepted'[f] \ {"IGNORED_TEST"} # {}
               PROVE  \E i \in issues' : i.quote = event[f].quote
    BY DEF ProcessedHasIssue, provider_vars
  <2>1. (inbox[f] = "PROCESSED" \/ accepted[f] \ {"IGNORED_TEST"} # {})
        => \E i \in issues' : i.quote = event[f].quote
    BY DEF OrdersInv, ProcessedHasIssue
  <2>2. CASE f # e
    BY <1>4, <2>1, <2>2
  <2>3. CASE f = e
    <3>1. inbox'[e] = s /\ accepted'[e] = a
      BY DEF OrdersInv, OrdersTypeOK
    <3> QED BY <2>1, <2>3, <3>1 DEF Marks
  <2> QED BY <2>2, <2>3
<1> QED BY <1>1, <1>2, <1>3, <1>5, <1>6 DEF OrdersInv

(* The same, of a delivery that leaves the Issues as they are.               *)
LEMMA IssuesStay ==
  ASSUME OrdersInv, UNCHANGED <<issues, provider_vars>>
  PROVE  issues \subseteq issues' /\ issues' \subseteq OrderIssue /\ IssuesOfEvents' /\ KeysAreUnique'
BY DEF OrdersInv, OrdersTypeOK, IssuesOfEvents, KeysAreUnique, provider_vars

(* The reservation: a new Issue has keys no other has.                       *)
LEMMA ReservationAdds ==
  ASSUME OrdersAssumption, OrdersInv, NEW e \in Events, NEW code \in IssueCodes,
         Emitted(e), ~event[e].test, event[e].quote \in Quotes, Insertable(code, e),
         issues' = issues \cup
           {[code |-> code, order |-> event[e].order, event |-> e, quote |-> event[e].quote]},
         UNCHANGED provider_vars
  PROVE  /\ issues \subseteq issues' /\ issues' \subseteq OrderIssue /\ IssuesOfEvents' /\ KeysAreUnique'
         /\ \E i \in issues' : i.quote = event[e].quote
<1> DEFINE new == [code |-> code, order |-> event[e].order, event |-> e, quote |-> event[e].quote]
<1>1. event[e].order \in Orders
  BY PaidIsStarted
<1>2. event[e] = [order |-> event[e].order, quote |-> event[e].quote, test |-> FALSE]
  BY DEF OrdersInv, OrdersTypeOK, EventRecord
<1>3. \A i \in issues : i.quote # event[e].quote /\ i.code # code
  BY DEF Insertable, Existing
<1>4. new \in OrderIssue /\ new.quote = event[e].quote /\ new.code = code
      /\ event[new.event] = [order |-> new.order, quote |-> new.quote, test |-> FALSE]
  BY <1>1, <1>2 DEF OrderIssue
<1> HIDE DEF new
<1>5. issues' = issues \cup {new}
  BY DEF new
<1>6. IssuesOfEvents'
  BY <1>4, <1>5 DEF OrdersInv, IssuesOfEvents, provider_vars
<1>7. KeysAreUnique'
  BY <1>3, <1>4, <1>5 DEF OrdersInv, KeysAreUnique
<1> QED BY <1>4, <1>5, <1>6, <1>7 DEF OrdersInv, OrdersTypeOK

(* What the steps of a delivery know of it.                                  *)
LEMMA DeliveryKnows ==
  ASSUME OrdersInv, NEW d \in Deliveries, delivery[d].step # "idle"
  PROVE  /\ delivery[d] \in DeliveryRecord /\ Informed(delivery[d])
         /\ delivery[d].event \in Events /\ Emitted(delivery[d].event)
         /\ inbox[delivery[d].event] \in Marks \cup {"none", "PROCESSING", "PROCESSED"}
         /\ accepted[delivery[d].event] \in SUBSET (Marks \cup AnsweredWith200)
         /\ inbox = [inbox EXCEPT ![delivery[d].event] = inbox[delivery[d].event]]
         /\ accepted = [accepted EXCEPT ![delivery[d].event] = accepted[delivery[d].event]]
<1>1. delivery[d] \in DeliveryRecord /\ Informed(delivery[d])
  BY DEF OrdersInv, OrdersTypeOK
<1>2. delivery[d].event \in Events /\ Emitted(delivery[d].event)
  BY <1>1 DEF Informed
<1> QED BY <1>1, <1>2 DEF OrdersInv, OrdersTypeOK

(* The records a delivery moves to.                                          *)
LEMMA DeliveryMoves ==
  ASSUME OrdersAssumption, OrdersInv, NEW d \in Deliveries, delivery[d].step # "idle"
  PROVE  /\ NoDelivery \in DeliveryRecord /\ Informed(NoDelivery)
         /\ \A mark \in {"FAILED_RETRYABLE", "IGNORED_TEST", "FAILED_TERMINAL"} :
              LET r == [NoDelivery EXCEPT !.event = delivery[d].event, !.step = "mark", !.mark = mark] IN
              /\ r \in DeliveryRecord
              /\ \/ mark # "FAILED_TERMINAL"
                 \/ event[delivery[d].event].quote \notin Quotes
                 => Informed(r)
<1>1. /\ delivery[d] \in DeliveryRecord /\ delivery[d].event \in Events /\ Emitted(delivery[d].event)
  BY DeliveryKnows
<1>2. NoDelivery \in DeliveryRecord /\ Informed(NoDelivery)
  BY NoDeliveryIsOne DEF Informed
<1>3. ASSUME NEW mark \in {"FAILED_RETRYABLE", "IGNORED_TEST", "FAILED_TERMINAL"}
      PROVE  LET r == [NoDelivery EXCEPT !.event = delivery[d].event, !.step = "mark", !.mark = mark] IN
             /\ r \in DeliveryRecord
             /\ \/ mark # "FAILED_TERMINAL"
                \/ event[delivery[d].event].quote \notin Quotes
                => Informed(r)
  <2> DEFINE r == [NoDelivery EXCEPT !.event = delivery[d].event, !.step = "mark", !.mark = mark]
  <2>1. r \in DeliveryRecord /\ r.event = delivery[d].event /\ r.step = "mark" /\ r.mark = mark /\ r.seen = {}
    BY <1>1, NoDeliveryIsOne DEF DeliveryRecord, Marks
  <2> HIDE DEF r
  <2>2. (mark # "FAILED_TERMINAL" \/ event[delivery[d].event].quote \notin Quotes) => Informed(r)
    BY <1>1, <2>1 DEF Informed
  <2> QED BY <2>1, <2>2 DEF r
<1> QED BY <1>2, <1>3

(* A delivery of an emitted event begins.                                    *)
LEMMA DeliverKeeps ==
  ASSUME OrdersAssumption, OrdersInv, NEW d \in Deliveries, NEW e \in Events, Deliver(d, e)
  PROVE  OrdersInv'
<1> DEFINE r == [delivery[d] EXCEPT !.event = e, !.step = "record"]
<1>1. delivery[d] = NoDelivery /\ Emitted(e)
      /\ UNCHANGED <<sale_vars, provider_vars, accepted, inbox, issues>>
      /\ delivery' = [delivery EXCEPT ![d].event = e, ![d].step = "record"]
  BY DEF Deliver
<1>2. r \in DeliveryRecord /\ r.event = e /\ r.step = "record" /\ r.seen = {}
  BY <1>1, NoDeliveryIsOne DEF DeliveryRecord
<1>3. delivery' = [delivery EXCEPT ![d] = r]
  BY <1>1 DEF OrdersInv, OrdersTypeOK, DeliveryRecord
<1>4. inbox[e] \in Marks \cup {"none", "PROCESSING", "PROCESSED"} /\ inbox' = [inbox EXCEPT ![e] = inbox[e]]
      /\ accepted[e] \in SUBSET (Marks \cup AnsweredWith200)
      /\ accepted' = [accepted EXCEPT ![e] = accepted[e]]
  BY <1>1 DEF OrdersInv, OrdersTypeOK
<1> HIDE DEF r
<1>5. Informed(r)
  BY <1>1, <1>2 DEF Informed
<1> QED BY <1>1, <1>2, <1>3, <1>4, <1>5, DeliveryGoes, IssuesStay

(* The inbox records the event, and skips one that ended.                    *)
LEMMA RecordEventKeeps ==
  ASSUME OrdersAssumption, OrdersInv, NEW d \in Deliveries, RecordEvent(d)
  PROVE  OrdersInv'
<1> DEFINE e == delivery[d].event
           s == IF inbox[e] = "none" THEN "RECEIVED" ELSE inbox[e]
<1>1. delivery[d].step = "record" /\ UNCHANGED <<sale_vars, provider_vars, accepted, issues>>
  BY DEF RecordEvent
<1>2. /\ delivery[d] \in DeliveryRecord /\ Informed(delivery[d]) /\ e \in Events /\ Emitted(e)
      /\ inbox[e] \in Marks \cup {"none", "PROCESSING", "PROCESSED"}
      /\ accepted[e] \in SUBSET (Marks \cup AnsweredWith200)
      /\ accepted = [accepted EXCEPT ![e] = accepted[e]]
  BY <1>1, DeliveryKnows
<1>3. inbox' = [inbox EXCEPT ![e] = s] /\ s \in {inbox[e]} \cup Marks
  BY <1>2 DEF RecordEvent, OrdersInv, OrdersTypeOK, Marks
<1>4. PICK r \in DeliveryRecord : Informed(r) /\ delivery' = [delivery EXCEPT ![d] = r]
  <2>1. CASE event[e].test
    BY <1>1, <2>1, DeliveryMoves DEF RecordEvent, GoMark
  <2>2. CASE ~event[e].test /\ event[e].quote \in {None, Unknown}
    <3>1. event[e].quote \notin Quotes
      BY <2>2 DEF OrdersAssumption
    <3> QED BY <1>1, <2>2, <3>1, DeliveryMoves DEF RecordEvent, GoMark
  <2>3. CASE ~event[e].test /\ event[e].quote \notin {None, Unknown}
    <3> DEFINE r == [delivery[d] EXCEPT !.step = "look", !.claimable = FALSE, !.seen = {}]
    <3>1. event[e].quote \in Quotes
      <4>1. event[e].quote \in Quotes \cup NoQuote /\ event[e].quote # "none"
        BY <1>2, <2>3 DEF OrdersInv, OrdersTypeOK, EventsOfOrders, EventRecord
      <4> QED BY <2>3, <4>1 DEF NoQuote
    <3>2. delivery' = [delivery EXCEPT ![d].step = "look", ![d].claimable = FALSE, ![d].seen = {}]
      BY <2>3 DEF RecordEvent, GoTo
    <3>3. delivery' = [delivery EXCEPT ![d] = r]
      BY <1>2, <3>2 DEF OrdersInv, OrdersTypeOK, DeliveryRecord
    <3>4. r \in DeliveryRecord /\ r.event = e /\ r.step = "look" /\ r.seen = {}
      BY <1>2 DEF DeliveryRecord
    <3> HIDE DEF r
    <3>5. Informed(r)
      BY <1>2, <2>3, <3>1, <3>4 DEF Informed
    <3> QED BY <3>3, <3>4, <3>5
  <2> QED BY <2>1, <2>2, <2>3
<1> HIDE DEF e, s
<1>5. s \in Marks \cup {"none", "PROCESSING", "PROCESSED"} /\ accepted' = [accepted EXCEPT ![e] = accepted[e]]
  BY <1>1, <1>2, <1>3
<1> QED BY <1>1, <1>2, <1>3, <1>4, <1>5, DeliveryGoes, IssuesStay

(* The handler reads the issues that are there.                              *)
LEMMA LookKeeps ==
  ASSUME OrdersAssumption, OrdersInv, NEW d \in Deliveries, Look(d)
  PROVE  OrdersInv'
<1> DEFINE e == delivery[d].event
           r == [delivery[d] EXCEPT !.step = "reserve", !.claimable = Claimable(e), !.seen = issues]
<1>1. delivery[d].step = "look" /\ UNCHANGED <<sale_vars, provider_vars, accepted, inbox, issues>>
      /\ delivery' = [delivery EXCEPT ![d].step = "reserve", ![d].claimable = Claimable(e),
                                           ![d].seen = issues]
  BY DEF Look
<1>2. /\ delivery[d] \in DeliveryRecord /\ Informed(delivery[d]) /\ e \in Events /\ Emitted(e)
      /\ inbox[e] \in Marks \cup {"none", "PROCESSING", "PROCESSED"}
      /\ accepted[e] \in SUBSET (Marks \cup AnsweredWith200)
      /\ inbox = [inbox EXCEPT ![e] = inbox[e]] /\ accepted = [accepted EXCEPT ![e] = accepted[e]]
  BY <1>1, DeliveryKnows
<1>3. Claimable(e) \in BOOLEAN
  BY DEF Claimable
<1>4. r \in DeliveryRecord /\ r.event = e /\ r.step = "reserve" /\ r.seen = issues
  BY <1>2, <1>3 DEF DeliveryRecord, OrdersInv, OrdersTypeOK
<1>5. delivery' = [delivery EXCEPT ![d] = r]
  BY <1>1, <1>2 DEF OrdersInv, OrdersTypeOK, DeliveryRecord
<1> HIDE DEF r
<1>6. Informed(r)
  BY <1>1, <1>2, <1>4 DEF Informed
<1> HIDE DEF e
<1> QED BY <1>1, <1>2, <1>4, <1>5, <1>6, DeliveryGoes, IssuesStay

(* The inbox row gets its mark, and the delivery its answer.                 *)
LEMMA MarkKeeps ==
  ASSUME OrdersAssumption, OrdersInv, NEW d \in Deliveries, Mark(d)
  PROVE  OrdersInv'
<1> DEFINE e == delivery[d].event
           m == delivery[d].mark
           a == IF m = "FAILED_RETRYABLE" THEN accepted[e] ELSE accepted[e] \cup {m}
<1>1. delivery[d].step = "mark" /\ UNCHANGED <<sale_vars, provider_vars, issues>>
      /\ inbox' = [inbox EXCEPT ![e] = m]
  BY DEF Mark
<1>2. /\ delivery[d] \in DeliveryRecord /\ Informed(delivery[d]) /\ e \in Events /\ Emitted(e)
      /\ accepted[e] \in SUBSET (Marks \cup AnsweredWith200)
      /\ accepted = [accepted EXCEPT ![e] = accepted[e]]
  BY <1>1, DeliveryKnows
<1>3. delivery' = [delivery EXCEPT ![d] = NoDelivery] /\ accepted' = [accepted EXCEPT ![e] = a]
  BY <1>2 DEF Mark, Stop, Accept
<1>4. m \in Marks /\ (m \in {"FAILED_RETRYABLE", "IGNORED_TEST"} \/ event[e].quote \notin Quotes)
  BY <1>1, <1>2 DEF Informed, DeliveryRecord
<1>5. a \in SUBSET (Marks \cup AnsweredWith200)
      /\ (a \subseteq accepted[e] \cup {"IGNORED_TEST"} \/ event[e].quote \notin Quotes)
  BY <1>2, <1>4
<1>6. NoDelivery \in DeliveryRecord /\ Informed(NoDelivery)
  BY <1>1, DeliveryMoves
<1> HIDE DEF e, m, a
<1> QED BY <1>1, <1>2, <1>3, <1>4, <1>5, <1>6, DeliveryGoes, IssuesStay

(* The process of a delivery dies between two of its steps.                  *)
LEMMA DeliveryDiesKeeps ==
  ASSUME OrdersAssumption, OrdersInv, NEW d \in Deliveries, DeliveryDies(d)
  PROVE  OrdersInv'
<1> DEFINE e == delivery[d].event
<1>1. /\ delivery[d].step # "idle" /\ UNCHANGED <<sale_vars, provider_vars, accepted, inbox, issues>>
      /\ delivery' = [delivery EXCEPT ![d] = NoDelivery]
  BY DEF DeliveryDies, Stop
<1>2. /\ e \in Events /\ Emitted(e)
      /\ inbox[e] \in Marks \cup {"none", "PROCESSING", "PROCESSED"}
      /\ accepted[e] \in SUBSET (Marks \cup AnsweredWith200)
      /\ inbox' = [inbox EXCEPT ![e] = inbox[e]] /\ accepted' = [accepted EXCEPT ![e] = accepted[e]]
  BY <1>1, DeliveryKnows
<1>3. NoDelivery \in DeliveryRecord /\ Informed(NoDelivery)
  BY <1>1, DeliveryMoves
<1> HIDE DEF e
<1> QED BY <1>1, <1>2, <1>3, DeliveryGoes, IssuesStay

(* reservePaidOrder, whatever it returns: its mismatch cannot happen, for a  *)
(* paid quote's session was started, and its duplicate found the Issue.      *)
LEMMA OutcomeHolds ==
  ASSUME OrdersAssumption, OrdersInv, NEW d \in Deliveries, NEW code \in IssueCodes,
         delivery[d].step = "reserve"
  PROVE  LET e == delivery[d].event
             outcome == Outcome(d, code) IN
         /\ outcome \in {"duplicate", "unclaimable", "reserved", "collision"}
         /\ outcome = "duplicate" => Issued(e)
         /\ outcome = "reserved" => Insertable(code, e)
         /\ outcome # "duplicate" => RowAfter(d, outcome) \subseteq {inbox[e], "PROCESSING"}
         /\ RowAfter(d, outcome) \subseteq {inbox[e], "PROCESSING", "PROCESSED"}
<1> DEFINE e == delivery[d].event
<1>1. /\ Informed(delivery[d]) /\ e \in Events /\ Emitted(e) /\ ~event[e].test /\ event[e].quote \in Quotes
      /\ delivery[d].seen \subseteq issues
  BY DeliveryKnows DEF Informed
<1>2. Truth(event[e].quote)
  BY <1>1, PaidIsStarted
<1>3. Existing(delivery[d].seen, e) # {} => Issued(e)
  BY <1>1, FoundIsOfQuote
<1> HIDE DEF e
<1> QED BY <1>2, <1>3 DEF Outcome, RowAfter, e

(* The transaction that reserves an issue: new, found again, or in conflict. *)
LEMMA ReserveOrderKeeps ==
  ASSUME OrdersAssumption, OrdersInv, NEW d \in Deliveries, ReserveOrder(d)
  PROVE  OrdersInv'
<1> DEFINE e == delivery[d].event
           new(code) == [code |-> code, order |-> event[e].order, event |-> e, quote |-> event[e].quote]
<1>1. delivery[d].step = "reserve" /\ UNCHANGED <<sale_vars, provider_vars>>
  BY DEF ReserveOrder
<1>2. /\ delivery[d] \in DeliveryRecord /\ Informed(delivery[d]) /\ e \in Events /\ Emitted(e)
      /\ inbox[e] \in Marks \cup {"none", "PROCESSING", "PROCESSED"}
      /\ accepted[e] \in SUBSET (Marks \cup AnsweredWith200)
      /\ accepted = [accepted EXCEPT ![e] = accepted[e]]
  BY <1>1, DeliveryKnows
<1>3. ~event[e].test /\ event[e].quote \in Quotes /\ delivery[d].seen \subseteq issues
  BY <1>1, <1>2 DEF Informed
<1>4. PICK code \in IssueCodes :
        LET outcome == Outcome(d, code) IN
        /\ \E s \in RowAfter(d, outcome) : inbox' = [inbox EXCEPT ![e] = s]
        /\ issues' = issues \cup (IF outcome = "reserved" THEN {new(code)} ELSE {})
        /\ \/ outcome \in AnsweredWith200 /\ Accept(d, outcome)
           \/ outcome = "mismatch"
           \/ /\ outcome = "collision"
              /\ IF delivery[d].left = 1 THEN GoMark(d, "FAILED_RETRYABLE") ELSE NextCode(d)
              /\ UNCHANGED accepted
           \/ outcome = "unclaimable" /\ GoMark(d, "FAILED_RETRYABLE") /\ UNCHANGED accepted
  BY DEF ReserveOrder
<1> DEFINE outcome == Outcome(d, code)
<1>5. PICK s \in RowAfter(d, outcome) : inbox' = [inbox EXCEPT ![e] = s]
  BY <1>4
<1>6. /\ outcome \in {"duplicate", "unclaimable", "reserved", "collision"}
      /\ outcome = "duplicate" => Issued(e)
      /\ outcome = "reserved" => Insertable(code, e)
      /\ outcome # "duplicate" => s \in {inbox[e], "PROCESSING"}
      /\ s \in {inbox[e], "PROCESSING", "PROCESSED"}
  BY <1>1, <1>5, OutcomeHolds
<1>7. s \in Marks \cup {"none", "PROCESSING", "PROCESSED"}
  BY <1>2, <1>6
<1>8. /\ issues \subseteq issues' /\ issues' \subseteq OrderIssue /\ IssuesOfEvents' /\ KeysAreUnique'
      /\ outcome \in AnsweredWith200 => \E i \in issues' : i.quote = event[e].quote
  <2>1. CASE outcome = "reserved"
    BY <1>1, <1>2, <1>3, <1>4, <1>6, <2>1, ReservationAdds
  <2>2. CASE outcome # "reserved"
    <3>1. issues' = issues
      BY <1>4, <2>2
    <3> QED BY <1>1, <1>6, <2>2, <3>1, IssuesStay DEF AnsweredWith200, Issued
  <2> QED BY <2>1, <2>2
<1>9. PICK r \in DeliveryRecord : Informed(r) /\ delivery' = [delivery EXCEPT ![d] = r]
  <2>1. CASE outcome \in AnsweredWith200
    BY <1>1, <1>4, <2>1, DeliveryMoves DEF Accept, Stop, AnsweredWith200
  <2>2. CASE GoMark(d, "FAILED_RETRYABLE")
    BY <1>1, <2>2, DeliveryMoves DEF GoMark
  <2>3. CASE NextCode(d)
    <3> DEFINE n == delivery[d].left - 1
               r == [delivery[d] EXCEPT !.step = "look", !.claimable = FALSE, !.seen = {}, !.left = n]
    <3>1. delivery' = [delivery EXCEPT ![d] = r]
      BY <1>2, <2>3 DEF NextCode, OrdersInv, OrdersTypeOK, DeliveryRecord
    <3>2. r \in DeliveryRecord /\ r.event = e /\ r.step = "look" /\ r.seen = {}
      <4>1. n \in Int
        BY <1>2 DEF DeliveryRecord
      <4> HIDE DEF n
      <4> QED BY <1>2, <4>1 DEF DeliveryRecord
    <3> HIDE DEF r
    <3>3. Informed(r)
      BY <1>2, <1>3, <3>2 DEF Informed
    <3> QED BY <3>1, <3>2, <3>3
  <2> QED BY <1>4, <1>6, <2>1, <2>2, <2>3
<1>10. PICK a \in SUBSET (Marks \cup AnsweredWith200) :
         /\ accepted' = [accepted EXCEPT ![e] = a]
         /\ a = accepted[e] \/ outcome \in AnsweredWith200
  <2>1. CASE outcome \in AnsweredWith200
    <3>1. accepted' = [accepted EXCEPT ![e] = accepted[e] \cup {outcome}]
      BY <1>4, <2>1 DEF Accept, AnsweredWith200
    <3>2. accepted[e] \cup {outcome} \in SUBSET (Marks \cup AnsweredWith200)
      BY <1>2, <2>1
    <3> HIDE DEF outcome
    <3> QED BY <2>1, <3>1, <3>2
  <2>2. CASE outcome \notin AnsweredWith200
    BY <1>2, <1>4, <1>6, <2>2
  <2> QED BY <2>1, <2>2
<1>11. \/ s \in {inbox[e]} \cup Marks \cup {"PROCESSING"} /\ a \subseteq accepted[e] \cup {"IGNORED_TEST"}
       \/ s \in Marks /\ event[e].quote \notin Quotes
       \/ \E i \in issues' : i.quote = event[e].quote
  BY <1>6, <1>8, <1>10 DEF AnsweredWith200
<1> HIDE DEF e, outcome
<1> QED BY <1>1, <1>2, <1>5, <1>7, <1>8, <1>9, <1>10, <1>11, DeliveryGoes

(* The reservation throws, and the event is marked to be tried again.        *)
LEMMA ReserveThrowsKeeps ==
  ASSUME OrdersAssumption, OrdersInv, NEW d \in Deliveries, ReserveThrows(d)
  PROVE  OrdersInv'
<1> DEFINE e == delivery[d].event
<1>1. /\ delivery[d].step = "reserve" /\ GoMark(d, "FAILED_RETRYABLE")
      /\ UNCHANGED <<sale_vars, provider_vars, accepted>>
  BY DEF ReserveThrows
<1>2. /\ Informed(delivery[d]) /\ e \in Events /\ Emitted(e)
      /\ inbox[e] \in Marks \cup {"none", "PROCESSING", "PROCESSED"}
      /\ accepted[e] \in SUBSET (Marks \cup AnsweredWith200)
      /\ inbox = [inbox EXCEPT ![e] = inbox[e]] /\ accepted' = [accepted EXCEPT ![e] = accepted[e]]
  BY <1>1, DeliveryKnows
<1>3. ~event[e].test /\ event[e].quote \in Quotes
  BY <1>1, <1>2 DEF Informed
<1>4. PICK r \in DeliveryRecord : Informed(r) /\ delivery' = [delivery EXCEPT ![d] = r]
  BY <1>1, DeliveryMoves DEF GoMark
<1>5. CASE UNCHANGED <<inbox, issues>>
  <2>1. inbox' = [inbox EXCEPT ![e] = inbox[e]]
    BY <1>2, <1>5
  <2> HIDE DEF e
  <2> QED BY <1>1, <1>2, <1>4, <1>5, <2>1, DeliveryGoes, IssuesStay
<1>6. CASE \E code \in IssueCodes :
             /\ Outcome(d, code) = "reserved"
             /\ inbox' = [inbox EXCEPT ![e] = "PROCESSING"]
             /\ issues' = issues \cup
                  {[code |-> code, order |-> event[e].order, event |-> e, quote |-> event[e].quote]}
  <2>1. PICK code \in IssueCodes :
          /\ Outcome(d, code) = "reserved"
          /\ inbox' = [inbox EXCEPT ![e] = "PROCESSING"]
          /\ issues' = issues \cup
               {[code |-> code, order |-> event[e].order, event |-> e, quote |-> event[e].quote]}
    BY <1>6
  <2>2. Insertable(code, e)
    BY <1>1, <2>1, OutcomeHolds
  <2>3. /\ issues \subseteq issues' /\ issues' \subseteq OrderIssue /\ IssuesOfEvents' /\ KeysAreUnique'
        /\ \E i \in issues' : i.quote = event[e].quote
    BY <1>1, <1>2, <1>3, <2>1, <2>2, ReservationAdds
  <2> HIDE DEF e
  <2> QED BY <1>1, <1>2, <1>4, <2>1, <2>3, DeliveryGoes
<1> QED BY <1>5, <1>6 DEF ReserveThrows

(* The inductive invariant of a sale: one answered cart per session, orders  *)
(* and events of answered carts, Issues of events, deliveries that know them.*)
THEOREM OrdersInvariant ==
  ASSUME OrdersAssumption
  PROVE  OrdersSpec => []OrdersInv
<1>1. OrdersInit => OrdersInv
  BY OrdersStart
<1>2. ASSUME OrdersInv, [OrdersNext]_orderVars PROVE OrdersInv'
  <2>1. CASE UNCHANGED orderVars
    BY <1>2, <2>1 DEF orderVars, sale_vars, provider_vars, OrdersInv, OrdersTypeOK, CartsQuoted,
       OneLinkPerSession, OrdersOfLinks, EventsOfOrders, Emitted, IssuesOfEvents, KeysAreUnique, Informed,
       UntoldUntilEmitted, ProcessedHasIssue
  <2>2. CASE \E t \in CartTabs :
               (\E q \in Quotes : StartCheckout(t, q)) \/ Lookup(t) \/ CreateCart(t) \/ Advance(t)
    BY <1>2, <2>2, CartKeeps, AdvanceKeeps
  <2>3. CASE (\E o \in Orders : PlaceOrder(o))
             \/ \E e \in Events : Emit(e) \/ \E d \in Deliveries : Deliver(d, e)
    BY <1>2, <2>3, PlaceOrderKeeps, EmitKeeps, DeliverKeeps
  <2>4. CASE \E d \in Deliveries : DeliveryStep(d) \/ ReserveThrows(d) \/ DeliveryDies(d)
    BY <1>2, <2>4, RecordEventKeeps, LookKeeps, ReserveOrderKeeps, MarkKeeps, ReserveThrowsKeeps,
       DeliveryDiesKeeps DEF DeliveryStep
  <2> QED BY <1>2, <2>1, <2>2, <2>3, <2>4 DEF OrdersNext
<1> QED BY <1>1, <1>2, PTL DEF OrdersSpec

(* Every Issue is of an order the provider took for its quote, a private     *)
(* session yields at most one, and whatever is PROCESSED or answered as an   *)
(* order of ours has one (FourthwallOrderWebhookService.ts, the registry).   *)
THEOREM EverySaleHasItsIssue ==
  ASSUME OrdersAssumption
  PROVE  OrdersSpec => []SalesHaveTheirIssue
<1>1. OrdersInv => SalesHaveTheirIssue
  <2> SUFFICES ASSUME OrdersInv PROVE OneIssuePerSale
    BY DEF OrdersInv, SalesHaveTheirIssue
  <2>1. ASSUME NEW i \in issues
        PROVE  i.order \in Orders /\ orders[i.order] = i.quote /\ i.quote \in cartLinks
    <3>1. /\ i.event \in Events /\ i.quote \in Quotes
          /\ event[i.event] = [order |-> i.order, quote |-> i.quote, test |-> FALSE]
      BY DEF OrdersInv, OrdersTypeOK, OrderIssue, IssuesOfEvents
    <3>2. Emitted(i.event)
      BY <3>1 DEF Emitted, NoEvent, OrdersAssumption
    <3>3. i.order \in Orders /\ i.quote = orders[i.order]
      BY <3>1, <3>2 DEF OrdersInv, EventsOfOrders
    <3> QED BY <3>1, <3>3 DEF OrdersInv, OrdersOfLinks, NoQuote, OrdersAssumption
  <2>2. \A i, j \in issues : i # j => SaleOf(i) # SaleOf(j) /\ i.code # j.code
    BY <2>1 DEF OrdersInv, KeysAreUnique, OneLinkPerSession, SaleOf
  <2> QED BY <2>1, <2>2 DEF OneIssuePerSale
<1> QED BY <1>1, OrdersInvariant, PTL

-----------------------------------------------------------------------------
(* Website.                                                                  *)

Payload == [Products -> Nat]
Publishing == {"retire", "rows", "insert"}
Stages == Publishing \cup {"idle", "check", "current", "look", "create", "failed", "lock", "write",
                           "refresh", "apply"}
CallRecord ==
  [stage : Stages, tab : Panels \cup {None}, body : Payload,
   item : Products \cup Questions \cup {None}, value : Nat, retires : SUBSET Nat, seen : SUBSET Questions]
PanelRecord == [form : Payload, on : SUBSET Questions, dirty : BOOLEAN, working : BOOLEAN]

WebsiteTypeOK ==
  /\ versions \in Seq(Payload)
  /\ panel \in [Panels -> PanelRecord]
  /\ call \in [Calls -> CallRecord]

(* The advisory lock lets one call publish, so the versions it retires are   *)
(* the ones that are ACTIVE when it inserts.                                 *)
OnePublishes ==
  \A c, d \in Calls : c # d => ~({call[c].stage, call[d].stage} \subseteq Publishing)
RetiresLive == \A c \in Calls : call[c].stage \in {"rows", "insert"} => call[c].retires = live

WebsiteInv ==
  /\ WebsiteTypeOK
  /\ versions # <<>> /\ live = {Len(versions)}
  /\ OnePublishes /\ RetiresLive

(* The invariant of the website holds of its initial states.                 *)
LEMMA WebsiteStarts == ASSUME WebsiteAssumption PROVE WebsiteInit => WebsiteInv
<1> SUFFICES ASSUME WebsiteInit PROVE WebsiteInv
  OBVIOUS
<1>1. NoCall \in CallRecord
  BY DEF NoCall, CallRecord, Stages, Payload, WebsiteAssumption
<1>2. versions \in Seq(Payload) /\ Len(versions) = 1 /\ versions # <<>>
  BY DEF WebsiteInit, Payload, WebsiteAssumption
<1>3. call = [c \in Calls |-> NoCall] /\ NoCall.stage = "idle"
  BY DEF WebsiteInit, NoCall
<1>4. panel \in [Panels -> PanelRecord]
  BY DEF WebsiteInit, PanelRecord, Payload, WebsiteAssumption
<1> QED BY <1>1, <1>2, <1>3, <1>4
     DEF WebsiteInit, WebsiteInv, WebsiteTypeOK, OnePublishes, RetiresLive, Publishing

(* The catalog that is served is a whole one.                                *)
LEMMA ServedIsPayload == ASSUME WebsiteInv PROVE Catalog \in Payload
<1>1. Len(versions) \in 1..Len(versions)
  BY LenProperties, EmptySeq DEF WebsiteInv, WebsiteTypeOK
<1>2. live = {Len(versions)}
  BY DEF WebsiteInv
<1>3. (CHOOSE v \in live : \A w \in live : w <= v) = Len(versions)
  <2>1. \E v \in live : \A w \in live : w <= v
    BY <1>1, <1>2
  <2> QED BY <1>2, <2>1
<1> QED BY <1>1, <1>2, <1>3 DEF Catalog, WebsiteInv, WebsiteTypeOK

(* A call that goes on, and publishes only what it did before or alone.      *)
LEMMA CallMoves ==
  ASSUME WebsiteInv, NEW c \in Calls, NEW r \in CallRecord, call' = [call EXCEPT ![c] = r],
         panel' \in [Panels -> PanelRecord], UNCHANGED <<versions, live>>,
         r.stage \in Publishing =>
           call[c].stage \in Publishing \/ \A d \in Calls : call[d].stage \notin Publishing,
         r.stage \in {"rows", "insert"} => r.retires = live
  PROVE  WebsiteInv'
<1> USE DEF WebsiteInv, WebsiteTypeOK
<1>1. WebsiteTypeOK'
  OBVIOUS
<1>2. OnePublishes'
  BY DEF OnePublishes
<1>3. RetiresLive'
  BY DEF RetiresLive
<1> QED BY <1>1, <1>2, <1>3

(* A panel begins a call that is not publishing.                             *)
LEMMA BeginCallKeeps ==
  ASSUME WebsiteInv, NEW t \in Panels, NEW r \in CallRecord, r.stage \notin Publishing, BeginCall(t, r)
  PROVE  WebsiteInv'
<1>1. PICK c \in Calls : call' = [call EXCEPT ![c] = r]
  BY DEF BeginCall
<1>2. panel' \in [Panels -> PanelRecord]
  BY DEF BeginCall, WebsiteInv, WebsiteTypeOK, PanelRecord
<1> QED BY <1>1, <1>2, CallMoves DEF BeginCall, Publishing

(* The owner's buttons.                                                      *)
LEMMA PanelKeeps ==
  ASSUME WebsiteAssumption, WebsiteInv, NEW t \in Panels,
         \/ PublishForm(t) \/ NewQuestion(t)
         \/ \E p \in Products : Edit(t, p) \/ QuickPrice(t, p)
         \/ \E q \in panel[t].on \cup Active(prompts) : Toggle(t, q) \/ Weigh(t, q)
  PROVE  WebsiteInv'
<1> DEFINE Ready(r) == r \in CallRecord /\ r.stage \notin Publishing
<1>1. panel[t] \in PanelRecord
  BY DEF WebsiteInv, WebsiteTypeOK
<1>2. NoCall \in CallRecord
  BY DEF NoCall, CallRecord, Stages, Payload, WebsiteAssumption
<1>3. CASE PublishForm(t)
  <2>1. Ready([NoCall EXCEPT !.stage = "check", !.tab = t, !.body = panel[t].form])
    BY <1>1, <1>2 DEF CallRecord, PanelRecord, Stages, Publishing
  <2> QED BY <1>3, <2>1, BeginCallKeeps DEF PublishForm
<1>4. CASE NewQuestion(t)
  <2>1. Ready([NoCall EXCEPT !.stage = "create", !.tab = t])
    BY <1>2 DEF CallRecord, Stages, Publishing
  <2> QED BY <1>4, <2>1, BeginCallKeeps DEF NewQuestion
<1>5. ASSUME NEW p \in Products, Edit(t, p) PROVE WebsiteInv'
  <2>1. PICK v \in 0 .. MaxPrice : panel' = [panel EXCEPT ![t].form[p] = v, ![t].dirty = TRUE]
    BY <1>5 DEF Edit
  <2> DEFINE f == [panel[t].form EXCEPT ![p] = v]
             w == [panel[t] EXCEPT !.form = f, !.dirty = TRUE]
  <2>2. w \in PanelRecord
    <3>1. v \in Nat /\ panel[t].form \in Payload
      BY <1>1 DEF PanelRecord, WebsiteAssumption
    <3>2. f \in Payload
      BY <3>1 DEF Payload
    <3> HIDE DEF f
    <3> QED BY <1>1, <3>2 DEF PanelRecord
  <2>3. panel' = [panel EXCEPT ![t] = w]
    BY <2>1 DEF WebsiteInv, WebsiteTypeOK, PanelRecord
  <2> QED BY <1>5, <2>2, <2>3
       DEF Edit, WebsiteInv, WebsiteTypeOK, OnePublishes, RetiresLive
<1>6. ASSUME NEW p \in Products, QuickPrice(t, p) PROVE WebsiteInv'
  <2>1. PICK v \in 1 .. MaxPrice :
          BeginCall(t, [NoCall EXCEPT !.stage = "current", !.tab = t, !.item = p, !.value = v])
    BY <1>6 DEF QuickPrice
  <2>2. Ready([NoCall EXCEPT !.stage = "current", !.tab = t, !.item = p, !.value = v])
    <3>1. v \in Nat
      BY DEF WebsiteAssumption
    <3> QED BY <1>2, <3>1 DEF CallRecord, Stages, Publishing
  <2> QED BY <2>1, <2>2, BeginCallKeeps
<1>7. ASSUME NEW q \in panel[t].on \cup Active(prompts), Toggle(t, q) \/ Weigh(t, q) PROVE WebsiteInv'
  <2>1. PICK n \in {0, 1} : BeginCall(t, [NoCall EXCEPT !.stage = "look", !.tab = t, !.item = q, !.value = n])
    BY <1>7 DEF Toggle, Weigh
  <2>2. q \in Questions
    BY <1>1, <1>7 DEF PanelRecord, Active
  <2>3. Ready([NoCall EXCEPT !.stage = "look", !.tab = t, !.item = q, !.value = n])
    <3>1. n \in Nat
      OBVIOUS
    <3> QED BY <1>2, <2>2, <3>1 DEF CallRecord, Stages, Publishing
  <2> QED BY <2>1, <2>3, BeginCallKeeps
<1> QED BY <1>3, <1>4, <1>5, <1>6, <1>7

(* publishVersionedConfig, statement by statement.                           *)
LEMMA PublishKeeps ==
  ASSUME WebsiteAssumption, WebsiteInv, NEW c \in Calls, ServeCatalog(c)
  PROVE  WebsiteInv'
<1>1. call[c] \in CallRecord /\ panel \in [Panels -> PanelRecord] /\ call \in [Calls -> CallRecord]
  BY DEF WebsiteInv, WebsiteTypeOK
<1>2. ASSUME NEW s \in Stages \ Publishing, call' = [call EXCEPT ![c].stage = s],
             UNCHANGED <<panel, versions, live>>
      PROVE  WebsiteInv'
  <2>1. /\ call' = [call EXCEPT ![c] = [call[c] EXCEPT !.stage = s]]
        /\ [call[c] EXCEPT !.stage = s] \in CallRecord
    BY <1>1, <1>2 DEF CallRecord
  <2> QED BY <1>1, <1>2, <2>1, CallMoves DEF CallRecord, Publishing
<1>3. CASE ReadCurrent(c)
  <2>1. CASE call' = [call EXCEPT ![c].stage = "failed"]
    BY <1>2, <1>3, <2>1 DEF ReadCurrent, Server, Stages, Publishing
  <2> DEFINE b == [Catalog EXCEPT ![call[c].item] = call[c].value]
             r == [call[c] EXCEPT !.stage = "check", !.body = b]
  <2>2. CASE call' = [call EXCEPT ![c].stage = "check", ![c].body = b]
    <3>1. Catalog \in [Products -> Nat] /\ call[c].value \in Nat
      BY <1>1, ServedIsPayload DEF Payload, CallRecord
    <3>2. b \in Payload
      <4> HIDE DEF Catalog
      <4> QED BY <3>1 DEF Payload
    <3>3. r \in CallRecord /\ r.stage \notin Publishing
      <4> HIDE DEF b
      <4> QED BY <1>1, <3>2 DEF CallRecord, Stages, Publishing
    <3>4. call' = [call EXCEPT ![c] = r]
      <4> HIDE DEF b
      <4> QED BY <1>1, <2>2 DEF CallRecord
    <3> QED BY <1>1, <1>3, <3>3, <3>4, CallMoves DEF ReadCurrent, Server, Publishing
  <2> QED BY <1>3, <2>1, <2>2 DEF ReadCurrent
<1>4. CASE CheckCatalog(c)
  BY <1>2, <1>4 DEF CheckCatalog, Step, Server, Stages, Publishing
<1>5. CASE Lock(c)
  <2>1. call' = [call EXCEPT ![c] = [call[c] EXCEPT !.stage = "retire"]]
        /\ [call[c] EXCEPT !.stage = "retire"] \in CallRecord
    BY <1>1, <1>5 DEF Lock, Step, CallRecord, Stages, Publishing
  <2> QED BY <1>1, <1>5, <2>1, CallMoves DEF Lock, LockFree, Server, CallRecord, Publishing
<1>6. CASE Retire(c)
  <2>1. call' = [call EXCEPT ![c] = [call[c] EXCEPT !.stage = "rows", !.retires = live]]
    BY <1>1, <1>6 DEF Retire, CallRecord
  <2>2. [call[c] EXCEPT !.stage = "rows", !.retires = live] \in CallRecord
    <3>1. live \in SUBSET Nat
      BY LenProperties DEF WebsiteInv, WebsiteTypeOK
    <3> QED BY <1>1, <3>1 DEF CallRecord, Stages, Publishing
  <2> QED BY <1>1, <1>6, <2>1, <2>2, CallMoves DEF Retire, Server, CallRecord, Publishing
<1>7. CASE TakeRows(c)
  <2>1. call[c].retires = live
    BY <1>7 DEF TakeRows, WebsiteInv, RetiresLive
  <2>2. call' = [call EXCEPT ![c] = [call[c] EXCEPT !.stage = "insert", !.retires = live]]
    BY <1>1, <1>7, <2>1 DEF TakeRows, CallRecord
  <2>3. [call[c] EXCEPT !.stage = "insert", !.retires = live] \in CallRecord
    BY <1>1, <2>1 DEF CallRecord, Stages, Publishing
  <2> QED BY <1>1, <1>7, <2>2, <2>3, CallMoves DEF TakeRows, Server, CallRecord, Publishing
<1>8. CASE Insert(c)
  <2> DEFINE r == [NoCall EXCEPT !.stage = "refresh", !.tab = call[c].tab]
  <2>1. call[c].retires = live /\ call[c].body \in Payload
    BY <1>1, <1>8 DEF Insert, WebsiteInv, RetiresLive, CallRecord
  <2>2. /\ versions' = Append(versions, call[c].body) /\ live' = {Len(versions) + 1}
        /\ call' = [call EXCEPT ![c] = r] /\ UNCHANGED panel
    BY <1>8, <2>1 DEF Insert, AnswerCall, Server
  <2>3. r \in CallRecord /\ r.stage = "refresh"
    BY <1>1 DEF NoCall, CallRecord, Stages, Payload, WebsiteAssumption
  <2>4. versions' \in Seq(Payload) /\ Len(versions') = Len(versions) + 1 /\ versions' # <<>>
    BY <2>1, <2>2, AppendProperties, EmptySeq DEF WebsiteInv, WebsiteTypeOK
  <2>5. \A d \in Calls \ {c} : call'[d] = call[d] /\ call[d].stage \notin Publishing
    BY <1>1, <1>8, <2>2 DEF Insert, WebsiteInv, OnePublishes, Publishing
  <2>6. call'[c] = r
    BY <1>1, <2>2
  <2>7. OnePublishes' /\ RetiresLive'
    BY <2>3, <2>5, <2>6 DEF OnePublishes, RetiresLive, Publishing
  <2> QED BY <1>1, <2>2, <2>3, <2>4, <2>7 DEF WebsiteInv, WebsiteTypeOK
<1> QED BY <1>3, <1>4, <1>5, <1>6, <1>7, <1>8 DEF ServeCatalog

(* What changes neither a version nor which of them is ACTIVE.               *)
LEMMA OtherCallKeeps ==
  ASSUME WebsiteAssumption, WebsiteInv, NEW c \in Calls,
         ServeQuestion(c) \/ GetState(c) \/ ApplyState(c) \/ Fails(c)
  PROVE  WebsiteInv'
<1>1. call[c] \in CallRecord /\ panel \in [Panels -> PanelRecord] /\ call \in [Calls -> CallRecord]
  BY DEF WebsiteInv, WebsiteTypeOK
<1>2. NoCall \in CallRecord /\ NoCall.stage = "idle"
  BY DEF NoCall, CallRecord, Stages, Payload, WebsiteAssumption
<1>3. CASE LookAtFamily(c)
  <2>1. PICK s \in {"write", "failed"} : call' = [call EXCEPT ![c].stage = s]
    BY <1>3 DEF LookAtFamily, Step
  <2>2. /\ call' = [call EXCEPT ![c] = [call[c] EXCEPT !.stage = s]]
        /\ [call[c] EXCEPT !.stage = s] \in CallRecord
    BY <1>1, <2>1 DEF CallRecord, Stages
  <2> QED BY <1>1, <1>3, <2>2, CallMoves DEF LookAtFamily, Server, CallRecord, Publishing
<1>4. CASE WriteQuestion(c) \/ CreateVersion(c)
  <2> DEFINE r == [NoCall EXCEPT !.stage = "refresh", !.tab = call[c].tab]
  <2>1. r \in CallRecord /\ r.stage = "refresh" /\ call' = [call EXCEPT ![c] = r]
    BY <1>1, <1>2, <1>4 DEF WriteQuestion, CreateVersion, AnswerCall, CallRecord, Stages
  <2> QED BY <1>1, <1>4, <2>1, CallMoves DEF WriteQuestion, CreateVersion, Server, Publishing
<1>5. CASE GetState(c)
  <2> DEFINE r == [call[c] EXCEPT !.stage = "apply", !.body = Catalog, !.seen = Active(prompts)]
  <2>1. call' = [call EXCEPT ![c] = r]
    BY <1>1, <1>5 DEF GetState, CallRecord
  <2>2. Active(prompts) \in SUBSET Questions
    BY DEF Active
  <2>3. r \in CallRecord /\ r.stage = "apply"
    BY <1>1, <2>2, ServedIsPayload DEF CallRecord, Stages
  <2> QED BY <1>1, <1>5, <2>1, <2>3, CallMoves DEF GetState, Server, Publishing
<1>6. CASE ApplyState(c)
  <2>1. [form |-> call[c].body, on |-> call[c].seen, dirty |-> FALSE, working |-> FALSE] \in PanelRecord
    BY <1>1 DEF CallRecord, PanelRecord
  <2>2. panel' \in [Panels -> PanelRecord]
    BY <1>1, <1>6, <2>1 DEF ApplyState
  <2> QED BY <1>2, <1>6, <2>2, CallMoves DEF ApplyState, Publishing
<1>7. CASE Fails(c)
  <2>1. panel' \in [Panels -> PanelRecord]
    BY <1>1, <1>7 DEF Fails, PanelRecord
  <2> QED BY <1>2, <1>7, <2>1, CallMoves DEF Fails, Publishing
<1> QED BY <1>3, <1>4, <1>5, <1>6, <1>7 DEF ServeQuestion

(* The inductive invariant of the catalog: one call publishes at a time, and *)
(* what it retires is what is ACTIVE (PostgresVersionedConfig.ts).           *)
THEOREM WebsiteInvariant ==
  ASSUME WebsiteAssumption
  PROVE  WebsiteSpec => []WebsiteInv
<1>1. WebsiteInit => WebsiteInv
  BY WebsiteStarts
<1>2. ASSUME WebsiteInv, [WebsiteNext]_websiteVars PROVE WebsiteInv'
  <2>1. CASE UNCHANGED websiteVars
    BY <1>2, <2>1 DEF websiteVars, WebsiteInv, WebsiteTypeOK, OnePublishes, RetiresLive
  <2> QED BY <1>2, <2>1, PanelKeeps, PublishKeeps, OtherCallKeeps DEF WebsiteNext
<1> QED BY <1>1, <1>2, PTL DEF WebsiteSpec

(* However many owners publish at once, the newest version is the one ACTIVE *)
(* one, and no publisher runs into the unique index.                         *)
THEOREM OneCatalog ==
  ASSUME WebsiteAssumption
  PROVE  WebsiteSpec => []OneCatalogIsServed
<1>1. WebsiteInv => OneCatalogIsServed
  BY DEF WebsiteInv, WebsiteTypeOK, CallRecord, Stages, Publishing, OneCatalogIsServed
<1> QED BY <1>1, WebsiteInvariant, PTL

-----------------------------------------------------------------------------
(* SupportDesk.                                                              *)

FormRecord == [id : Ids \cup {None}, step : {"idle", "create", "send"}]
DeskKinds == {"none", "reveal", "reply", "OPEN", "CLOSED"}
DeskSteps == {"idle", "read", "send", "set", "record", "answer"}
DeskRecord == [kind : DeskKinds, step : DeskSteps, id : Ids \cup {None}, generation : Nat]
ItemsRecord == [status : {"OPEN", "CLOSED"}, ids : SUBSET Ids]

SupportTypeOK ==
  /\ status \in [Ids -> {"none", "OPEN", "CLOSED"}]
  /\ about \in [Ids -> Issues \cup {None}]
  /\ form \in [Issues -> FormRecord]
  /\ ownerMailed \in SUBSET Ids
  /\ filter \in {"OPEN", "CLOSED"}
  /\ items \in ItemsRecord
  /\ generation \in Nat
  /\ deskAction \in DeskRecord

Stored == {r \in Ids : status[r] # "none"}

(* A form mails the owner of what it stored, and nobody else's.              *)
FormsStore ==
  /\ \A r \in Stored : about[r] \in Issues
  /\ \A i \in Issues :
       /\ form[i].step # "idle" => form[i].id \in Ids /\ about[form[i].id] = i
       /\ form[i].step = "send" => form[i].id \in Stored

(* The running action is of a stored request, the chosen one if nothing was  *)
(* chosen since, and it records what it has done before it answers.          *)
ActionKnows ==
  LET a == deskAction IN
  /\ items.ids \subseteq Stored
  /\ a.generation <= generation
  /\ a.step # "idle" =>
       a.kind # "none" /\ a.id \in Stored /\ (a.generation = generation => selectedId = a.id)
  /\ a.step = "send" => a.kind = "reply"
  /\ a.kind = "reply" /\ a.step \in {"record", "answer"} => a.id \in replied
  /\ a.kind = "reveal" /\ a.step = "answer" => <<"reveal", about[a.id]>> \in audit
  /\ a.kind \in {"OPEN", "CLOSED"} => a.step \in {"idle", "set", "record", "answer"}
  /\ a.step = "set" => a.kind \in {"OPEN", "CLOSED"}
  /\ a.step = "read" => a.kind = "reveal"

SupportInv ==
  /\ SupportTypeOK
  /\ FormsStore /\ ActionKnows
  /\ RequestsOnRecord /\ RevealedIsChosen

(* The invariant of support holds of its initial states.                     *)
LEMMA SupportStarts == ASSUME SupportAssumption PROVE SupportInit => SupportInv
<1> SUFFICES ASSUME SupportInit PROVE SupportInv
  OBVIOUS
<1>1. SupportTypeOK
  BY DEF SupportInit, SupportTypeOK, FormRecord, NoForm, ItemsRecord, DeskRecord, DeskKinds, DeskSteps,
         NoDeskAction
<1>2. FormsStore
  BY DEF SupportInit, FormsStore, Stored, NoForm
<1>3. ActionKnows
  BY DEF SupportInit, ActionKnows, NoDeskAction
<1> QED BY <1>1, <1>2, <1>3 DEF SupportInit, SupportInv, RequestsOnRecord, RevealedIsChosen

(* The form: what is stored stays stored, and of the same Issue.             *)
LEMMA FormKeeps ==
  ASSUME SupportAssumption, SupportInv, NEW i \in Issues, Submit(i) \/ Store(i) \/ MailOwner(i)
  PROVE  SupportInv'
<1>1. CASE Submit(i)
  <2>1. PICK r \in Ids : /\ about[r] = None
                         /\ form' = [form EXCEPT ![i] = [id |-> r, step |-> "create"]]
                         /\ about' = [about EXCEPT ![r] = i]
    BY <1>1 DEF Submit
  <2>2. UNCHANGED <<status, told, ownerMailed, replied, audit, desk_vars, deskAction>>
    BY <1>1 DEF Submit
  <2>3. r \notin Stored /\ \A s \in Ids \ {r} : about'[s] = about[s]
    BY <2>1 DEF SupportInv, SupportTypeOK, FormsStore, SupportAssumption
  <2>4. SupportTypeOK'
    BY <2>1, <2>2 DEF SupportInv, SupportTypeOK, FormRecord, desk_vars
  <2>5. FormsStore'
    BY <2>1, <2>2, <2>3 DEF SupportInv, SupportTypeOK, FormsStore, Stored, SupportAssumption
  <2>6. ActionKnows'
    BY <2>2, <2>3 DEF SupportInv, ActionKnows, Stored, desk_vars
  <2>7. RevealedIsChosen'
    BY <2>1, <2>2 DEF SupportInv, SupportTypeOK, RevealedIsChosen, desk_vars
  <2>8. RequestsOnRecord'
    BY <2>2 DEF SupportInv, RequestsOnRecord
  <2> QED BY <2>4, <2>5, <2>6, <2>7, <2>8 DEF SupportInv
<1>2. CASE Store(i)
  <2> DEFINE r == form[i].id
  <2>1. form[i].step = "create" /\ r \in Ids /\ about[r] = i
        /\ UNCHANGED <<about, told, ownerMailed, replied, audit, desk_vars, deskAction>>
    BY <1>2 DEF Store, SupportInv, FormsStore
  <2>2. \/ status' = [status EXCEPT ![r] = "OPEN"] /\ form' = [form EXCEPT ![i].step = "send"]
        \/ UNCHANGED status /\ form' = [form EXCEPT ![i] = NoForm]
    BY <1>2 DEF Store
  <2> HIDE DEF r
  <2>3. form[i] \in FormRecord /\ Stored \subseteq Stored'
    BY <2>1, <2>2 DEF SupportInv, SupportTypeOK, Stored
  <2>4. /\ form' \in [Issues -> FormRecord] /\ \A j \in Issues \ {i} : form'[j] = form[j]
        /\ \/ form'[i].step = "idle" /\ UNCHANGED status
           \/ form'[i] = [id |-> r, step |-> "send"] /\ status' = [status EXCEPT ![r] = "OPEN"]
    BY <2>2, <2>3 DEF SupportInv, SupportTypeOK, FormRecord, NoForm, r
  <2>5. SupportTypeOK'
    BY <2>1, <2>2, <2>4 DEF SupportInv, SupportTypeOK, desk_vars
  <2>6. FormsStore'
    BY <2>1, <2>3, <2>4 DEF SupportInv, SupportTypeOK, FormsStore, Stored
  <2>7. ActionKnows'
    BY <2>1, <2>3 DEF SupportInv, ActionKnows, desk_vars
  <2>8. RequestsOnRecord'
    BY <2>1, <2>2 DEF SupportInv, SupportTypeOK, RequestsOnRecord
  <2> QED BY <2>1, <2>5, <2>6, <2>7, <2>8 DEF SupportInv, RevealedIsChosen, desk_vars
<1>3. CASE MailOwner(i)
  <2> DEFINE r == form[i].id
  <2>1. form[i].step = "send" /\ r \in Stored
        /\ form' = [form EXCEPT ![i] = NoForm]
        /\ UNCHANGED <<status, about, replied, audit, desk_vars, deskAction>>
        /\ ownerMailed' \in {ownerMailed, ownerMailed \cup {r}}
        /\ \/ ownerMailed' = ownerMailed \cup {r} /\ told' = told \cup {r}
           \/ UNCHANGED told
    BY <1>3 DEF MailOwner, MailLast, SupportInv, FormsStore
  <2> HIDE DEF r
  <2>2. SupportTypeOK'
    BY <2>1 DEF SupportInv, SupportTypeOK, FormRecord, NoForm, Stored, desk_vars
  <2>3. FormsStore'
    BY <2>1 DEF SupportInv, SupportTypeOK, FormsStore, Stored, NoForm
  <2>4. ActionKnows'
    BY <2>1 DEF SupportInv, ActionKnows, Stored, desk_vars
  <2>5. RequestsOnRecord'
    BY <2>1 DEF SupportInv, RequestsOnRecord, Stored
  <2> QED BY <2>1, <2>2, <2>3, <2>4, <2>5 DEF SupportInv, RevealedIsChosen, desk_vars
<1> QED BY <1>1, <1>2, <1>3

(* What the desk lists is stored.                                            *)
LEMMA ListedIsStored ==
  ASSUME SupportInv PROVE Listed(filter) \in ItemsRecord /\ Listed(filter).ids \subseteq Stored
BY DEF SupportInv, SupportTypeOK, Listed, ItemsRecord, Stored

(* The desk chooses and lists; a choice outdates the running action.         *)
LEMMA DeskChooses ==
  ASSUME SupportAssumption, SupportInv, Refresh \/ ChangeFilter \/ \E r \in Ids : ChooseRequest(r)
  PROVE  SupportInv'
<1> USE DEF SupportInv
<1>1. /\ UNCHANGED <<status, form_vars, replied, audit, deskAction>>
      /\ \/ UNCHANGED <<filter, selectedId, generation, message>> /\ items' = Listed(filter)
         \/ /\ generation' = generation + 1 /\ message' = None /\ UNCHANGED items
            /\ filter' \in {"OPEN", "CLOSED"}
  <2>1. CASE Refresh
    BY <2>1 DEF Refresh
  <2>2. CASE ChangeFilter
    BY <2>2 DEF ChangeFilter
  <2>3. CASE \E r \in Ids : ChooseRequest(r)
    BY <2>3 DEF ChooseRequest, SupportTypeOK
  <2> QED BY <2>1, <2>2, <2>3
<1>2. items' \in ItemsRecord /\ items'.ids \subseteq Stored
  BY <1>1, ListedIsStored DEF SupportTypeOK, ActionKnows
<1>3. SupportTypeOK'
  BY <1>1, <1>2 DEF SupportTypeOK, form_vars
<1>4. FormsStore'
  BY <1>1 DEF FormsStore, Stored, form_vars
<1>5. ActionKnows'
  <2>1. deskAction.generation \in Nat /\ generation \in Nat
    BY DEF SupportTypeOK, DeskRecord
  <2>2. (generation' = generation /\ selectedId' = selectedId) \/ generation' = generation + 1
    BY <1>1
  <2> QED BY <1>1, <1>2, <2>1, <2>2 DEF ActionKnows, Stored, form_vars
<1>6. RevealedIsChosen'
  BY <1>1 DEF RevealedIsChosen, form_vars
<1>7. RequestsOnRecord'
  BY <1>1 DEF RequestsOnRecord, form_vars
<1> QED BY <1>3, <1>4, <1>5, <1>6, <1>7

(* The desk runs an action on the request it shows.                          *)
LEMMA RunKeeps ==
  ASSUME SupportAssumption, SupportInv, NEW kind \in DOMAIN FirstStep, Run(kind)
  PROVE  SupportInv'
<1> USE DEF SupportInv
<1> DEFINE a == [kind |-> kind, step |-> FirstStep[kind], id |-> selectedId, generation |-> generation]
<1>1. kind \in {"reveal", "reply", "OPEN", "CLOSED"}
      /\ FirstStep[kind] = (CASE kind = "reveal" -> "read" [] kind = "reply" -> "send" [] OTHER -> "set")
  BY DEF FirstStep
<1>2. selectedId \in Stored /\ selectedId \in Ids /\ deskAction' = a
      /\ UNCHANGED <<status, form_vars, replied, audit, desk_vars>>
  BY DEF Run, ActionKnows, Stored
<1>3. a \in DeskRecord
  BY <1>1, <1>2 DEF DeskRecord, DeskKinds, DeskSteps, SupportTypeOK
<1>4. a.kind = kind /\ a.step = FirstStep[kind] /\ a.id = selectedId /\ a.generation = generation
  OBVIOUS
<1> HIDE DEF a
<1>5. SupportTypeOK'
  BY <1>2, <1>3 DEF SupportTypeOK, form_vars, desk_vars
<1>6. ActionKnows'
  BY <1>1, <1>2, <1>4 DEF SupportTypeOK, ActionKnows, Stored, desk_vars
<1> QED BY <1>2, <1>5, <1>6 DEF FormsStore, Stored, RevealedIsChosen, RequestsOnRecord, form_vars, desk_vars

(* The steps of an action.                                                   *)
LEMMA DeskMoves ==
  ASSUME SupportAssumption, SupportInv, NEW s \in DeskSteps \ {"idle"}, To(s), deskAction.step # "idle",
         UNCHANGED <<about, form, told, ownerMailed, filter, items, selectedId, generation, message>>,
         status' \in [Ids -> {"none", "OPEN", "CLOSED"}], Stored' = Stored,
         replied \subseteq replied', audit \subseteq audit',
         \A r \in Ids : <<"reply", r>> \in audit' => <<"reply", r>> \in audit \/ r \in replied,
         \/ s = "record" /\ (deskAction.kind = "reply" => deskAction.id \in replied')
         \/ s = "answer" /\ deskAction.step = "record"
            /\ (deskAction.kind = "reveal" => <<"reveal", about[deskAction.id]>> \in audit')
  PROVE  SupportInv'
<1> USE DEF SupportInv
<1>1. deskAction \in DeskRecord
  BY DEF SupportTypeOK
<1>2. /\ deskAction' \in DeskRecord /\ deskAction'.step = s /\ deskAction'.kind = deskAction.kind
      /\ deskAction'.id = deskAction.id /\ deskAction'.generation = deskAction.generation
  BY <1>1 DEF To, DeskRecord
<1>3. SupportTypeOK'
  BY <1>2 DEF SupportTypeOK
<1>4. FormsStore'
  BY DEF FormsStore
<1>5. ActionKnows'
  BY <1>2 DEF ActionKnows
<1>6. RequestsOnRecord'
  <2>1. \A r \in ownerMailed \cup told : r \in Stored
    BY DEF RequestsOnRecord, SupportTypeOK, Stored
  <2>2. \A r \in ownerMailed' \cup told' : status'[r] # "none"
    BY <2>1 DEF Stored
  <2> QED BY <2>2 DEF RequestsOnRecord
<1>7. RevealedIsChosen'
  BY DEF RevealedIsChosen
<1> QED BY <1>3, <1>4, <1>5, <1>6, <1>7

(* The server's steps of the desk's action: read, send, set, record.         *)
LEMMA ActionSteps ==
  ASSUME SupportAssumption, SupportInv, Read \/ Reply \/ SetStatus \/ RecordAction
  PROVE  SupportInv'
<1> DEFINE a == deskAction
<1>1. a \in DeskRecord /\ status \in [Ids -> {"none", "OPEN", "CLOSED"}] /\ items.ids \subseteq Stored
  BY DEF SupportInv, SupportTypeOK, ActionKnows
<1>2. CASE Read
  <2>1. /\ To("record") /\ a.step = "read" /\ a.kind = "reveal"
        /\ UNCHANGED <<status, form_vars, replied, audit, desk_vars>>
    BY <1>2 DEF Read, AfterRead, SupportInv, ActionKnows
  <2>2. Stored' = Stored
    BY <2>1 DEF Stored
  <2> QED BY <1>1, <2>1, <2>2, DeskMoves DEF DeskSteps, form_vars, desk_vars
<1>3. CASE Reply
  <2>1. /\ To("record") /\ a.step = "send" /\ replied' = replied \cup {a.id}
        /\ UNCHANGED <<status, form_vars, audit, desk_vars>>
    BY <1>3 DEF Reply
  <2>2. Stored' = Stored
    BY <2>1 DEF Stored
  <2> QED BY <1>1, <2>1, <2>2, DeskMoves DEF DeskSteps, form_vars, desk_vars
<1>4. CASE SetStatus
  <2>1. /\ To("record") /\ a.step = "set" /\ a.kind \in {"OPEN", "CLOSED"} /\ a.id \in Stored
        /\ status' = [status EXCEPT ![a.id] = a.kind]
        /\ UNCHANGED <<form_vars, replied, audit, desk_vars>>
    BY <1>4 DEF SetStatus, SupportInv, ActionKnows
  <2> HIDE DEF a
  <2>2. Stored' = Stored /\ status' \in [Ids -> {"none", "OPEN", "CLOSED"}]
    BY <1>1, <2>1 DEF Stored
  <2> USE DEF a
  <2> QED BY <1>1, <2>1, <2>2, DeskMoves DEF DeskSteps, form_vars, desk_vars
<1>5. CASE RecordAction
  <2>1. /\ To("answer") /\ a.step = "record" /\ audit' = audit \cup Recorded
        /\ UNCHANGED <<status, form_vars, replied, desk_vars>>
    BY <1>5 DEF RecordAction
  <2>2. Stored' = Stored
    BY <2>1 DEF Stored
  <2>3. \A r \in Ids : <<"reply", r>> \in Recorded => r \in replied
    BY <2>1 DEF Recorded, SupportInv, ActionKnows
  <2>4. a.kind = "reveal" => <<"reveal", about[a.id]>> \in Recorded
    BY DEF Recorded
  <2> QED BY <1>1, <2>1, <2>2, <2>3, <2>4, DeskMoves DEF DeskSteps, form_vars, desk_vars
<1> QED BY <1>2, <1>3, <1>4, <1>5

(* The desk gets the answer of its action, or loses it.                      *)
LEMMA ActionEnds ==
  ASSUME SupportAssumption, SupportInv, Answer \/ Lost
  PROVE  SupportInv'
<1> USE DEF SupportInv
<1>1. /\ deskAction' = NoDeskAction /\ UNCHANGED <<status, form_vars, audit, filter, selectedId, generation>>
      /\ items' \in {items, Listed(filter)} /\ replied \subseteq replied'
  BY DEF Answer, Lost, desk_vars
<1>2. items' \in ItemsRecord /\ items'.ids \subseteq Stored
  BY <1>1, ListedIsStored DEF SupportTypeOK, ActionKnows
<1>3. NoDeskAction \in DeskRecord
  BY DEF NoDeskAction, DeskRecord, DeskKinds, DeskSteps
<1>4. SupportTypeOK'
  BY <1>1, <1>2, <1>3 DEF SupportTypeOK, form_vars
<1>5. ActionKnows'
  BY <1>1, <1>2 DEF SupportTypeOK, ActionKnows, NoDeskAction, Stored
<1>6. RevealedIsChosen'
  <2>1. CASE message' = message
    BY <1>1, <2>1 DEF RevealedIsChosen, form_vars
  <2>2. CASE /\ Answer /\ deskAction.kind = "reveal" /\ AnswerIsCurrent
             /\ message' = about[deskAction.id]
    <3>1. /\ deskAction.step = "answer" /\ deskAction.id \in Stored /\ selectedId = deskAction.id
          /\ <<"reveal", about[deskAction.id]>> \in audit
      BY <2>2 DEF Answer, AnswerIsCurrent, ActionKnows
    <3> QED BY <1>1, <2>2, <3>1 DEF RevealedIsChosen, Stored, SupportAssumption, form_vars
  <2> QED BY <2>1, <2>2 DEF Answer, Lost, desk_vars
<1> QED BY <1>1, <1>4, <1>5, <1>6 DEF FormsStore, Stored, RequestsOnRecord, form_vars

(* The inductive invariant of the support form and the owner's desk.         *)
THEOREM SupportInvariant ==
  ASSUME SupportAssumption
  PROVE  SupportSpec => []SupportInv
<1>1. SupportInit => SupportInv
  BY SupportStarts
<1>2. ASSUME SupportInv, [SupportNext]_supportVars PROVE SupportInv'
  <2>1. CASE UNCHANGED supportVars
    BY <1>2, <2>1 DEF supportVars, form_vars, desk_vars, SupportInv, SupportTypeOK, FormsStore, Stored,
       ActionKnows, RequestsOnRecord, RevealedIsChosen
  <2> QED BY <1>2, <2>1, FormKeeps, DeskChooses, RunKeeps, ActionSteps, ActionEnds DEF SupportNext
<1> QED BY <1>1, <1>2, PTL DEF SupportSpec

(* What was mailed or told is stored, and a reply on record was sent.        *)
THEOREM SupportIsOnRecord ==
  ASSUME SupportAssumption
  PROVE  SupportSpec => []RequestsOnRecord
<1>1. SupportInv => RequestsOnRecord
  BY DEF SupportInv
<1> QED BY <1>1, SupportInvariant, PTL

(* A revealed message is of the chosen request's Issue, and on record.       *)
THEOREM SupportShowsChosen ==
  ASSUME SupportAssumption
  PROVE  SupportSpec => []RevealedIsChosen
<1>1. SupportInv => RevealedIsChosen
  BY DEF SupportInv
<1> QED BY <1>1, SupportInvariant, PTL

-----------------------------------------------------------------------------
(* Deliveries.                                                               *)

MailTypeOK ==
  /\ rowStatus \in [Mails -> {"none", "PENDING", "SENT", "FAILED"}]
  /\ mailed \in SUBSET Mails
  /\ sender \in [Senders -> Mails \cup {None}]
  /\ senderStep \in [Senders -> {"idle", "reserve", "send", "sent", "failed"}]

(* A sender past its reservation holds the row of a job's mail, and none     *)
(* says sent what the provider did not take.                                 *)
Reserved(s) == senderStep[s] \in {"send", "sent", "failed"}
SendersHold ==
  \A s \in Senders :
    /\ senderStep[s] # "idle" => sender[s] \in Mails
    /\ Reserved(s) /\ sender[s] \in Told => rowStatus[sender[s]] = "PENDING"
    /\ senderStep[s] = "sent" => sender[s] \in mailed

SentWasTaken == \A m \in Mails : rowStatus[m] = "SENT" => m \in mailed

MailInv == MailTypeOK /\ SendersHold /\ SentWasTaken /\ OneSender

(* The invariant of the mails holds of their initial states.                 *)
LEMMA MailStarts == MailInit => MailInv
BY DEF MailInit, MailInv, MailTypeOK, SendersHold, Reserved, SentWasTaken, OneSender

(* One sender takes its next step, and changes at most the row of its mail.  *)
LEMMA SenderGoes ==
  ASSUME MailInv, NEW s \in Senders, NEW m \in Mails \cup {None},
         NEW next \in {"idle", "reserve", "send", "sent", "failed"},
         sender' = [sender EXCEPT ![s] = m], senderStep' = [senderStep EXCEPT ![s] = next],
         next # "idle" => m \in Mails,
         rowStatus' \in [Mails -> {"none", "PENDING", "SENT", "FAILED"}],
         NEW f \in Mails, \A g \in Mails \ {f} : rowStatus'[g] = rowStatus[g],
         rowStatus'[f] # rowStatus[f] /\ f \in Told =>
           \A t \in Senders \ {s} : ~(Reserved(t) /\ sender[t] = f),
         mailed \subseteq mailed', mailed' \subseteq Mails,
         rowStatus'[f] = "SENT" => f \in mailed',
         next = "sent" => m \in mailed',
         next \in {"send", "sent", "failed"} /\ m \in Told =>
           /\ rowStatus'[m] = "PENDING"
           /\ \A t \in Senders \ {s} : ~(Reserved(t) /\ sender[t] = m)
  PROVE  MailInv'
<1> USE DEF MailInv, MailTypeOK
<1>1. MailTypeOK'
  OBVIOUS
<1>2. \A t \in Senders \ {s} : sender'[t] = sender[t] /\ senderStep'[t] = senderStep[t]
  OBVIOUS
<1>3. sender'[s] = m /\ senderStep'[s] = next
  OBVIOUS
<1>5. SendersHold'
  <2> SUFFICES ASSUME NEW t \in Senders
               PROVE  /\ senderStep'[t] # "idle" => sender'[t] \in Mails
                      /\ senderStep'[t] \in {"send", "sent", "failed"} /\ sender'[t] \in Told
                           => rowStatus'[sender'[t]] = "PENDING"
                      /\ senderStep'[t] = "sent" => sender'[t] \in mailed'
    BY DEF SendersHold, Reserved
  <2>1. CASE t = s
    BY <1>3, <2>1
  <2>2. CASE t # s
    BY <1>2, <2>2 DEF SendersHold, Reserved
  <2> QED BY <2>1, <2>2
<1>6. SentWasTaken'
  BY DEF SentWasTaken
<1>7. OneSender'
  BY <1>2, <1>3 DEF OneSender, Reserved
<1> QED BY <1>1, <1>5, <1>6, <1>7

(* A sender takes a step that leaves every row alone, and does not start to send. *)
LEMMA SenderGoesOn ==
  ASSUME MailInv, NEW s \in Senders, NEW m \in Mails \cup {None},
         NEW next \in {"idle", "reserve", "sent", "failed"},
         sender' = [sender EXCEPT ![s] = m], senderStep' = [senderStep EXCEPT ![s] = next],
         next # "idle" => m \in Mails, NEW f \in Mails, UNCHANGED rowStatus,
         mailed \subseteq mailed', mailed' \subseteq Mails,
         next = "sent" => m \in mailed',
         next \in {"sent", "failed"} => m = sender[s] /\ Reserved(s)
  PROVE  MailInv'
<1>1. rowStatus'[f] = "SENT" => f \in mailed'
  BY DEF MailInv, SentWasTaken
<1>2. next \in {"send", "sent", "failed"} /\ m \in Told =>
        rowStatus'[m] = "PENDING" /\ \A t \in Senders \ {s} : ~(Reserved(t) /\ sender[t] = m)
  BY DEF MailInv, SendersHold, OneSender, Reserved
<1>3. next \in {"idle", "reserve", "send", "sent", "failed"}
      /\ rowStatus' \in [Mails -> {"none", "PENDING", "SENT", "FAILED"}]
  BY DEF MailInv, MailTypeOK
<1> QED BY <1>1, <1>2, <1>3, SenderGoes

(* A sender finishes, and its row gets the outcome.                          *)
LEMMA SenderEnds ==
  ASSUME MailInv, NEW s \in Senders, Finish(s), NEW f \in Mails,
         mailed \subseteq mailed', mailed' \subseteq Mails,
         rowStatus' \in [Mails -> {"none", "PENDING", "SENT", "FAILED"}],
         \A g \in Mails \ {f} : rowStatus'[g] = rowStatus[g],
         rowStatus'[f] # rowStatus[f] /\ f \in Told =>
           \A t \in Senders \ {s} : ~(Reserved(t) /\ sender[t] = f),
         rowStatus'[f] = "SENT" => f \in mailed'
  PROVE  MailInv'
<1> USE DEF MailInv, MailTypeOK
<1>1. MailTypeOK'
  BY DEF Finish
<1>2. senderStep'[s] = "idle"
      /\ \A t \in Senders \ {s} : sender'[t] = sender[t] /\ senderStep'[t] = senderStep[t]
  BY DEF Finish
<1>3. SendersHold'
  <2> SUFFICES ASSUME NEW t \in Senders, t # s
               PROVE  /\ senderStep'[t] # "idle" => sender'[t] \in Mails
                      /\ senderStep'[t] \in {"send", "sent", "failed"} /\ sender'[t] \in Told
                           => rowStatus'[sender'[t]] = "PENDING"
                      /\ senderStep'[t] = "sent" => sender'[t] \in mailed'
    BY <1>2 DEF SendersHold, Reserved
  <2> QED BY <1>2 DEF SendersHold, Reserved
<1>4. SentWasTaken'
  BY DEF SentWasTaken
<1>5. OneSender'
  BY <1>2 DEF OneSender
<1> QED BY <1>1, <1>3, <1>4, <1>5

(* The statements of a sender, one by one.                                   *)
LEMMA MailActions ==
  ASSUME MailAssumption, MailInv, NEW s \in Senders,
         \/ \E m \in Told : TakeJob(s, m)
         \/ \E m \in Launch : TakeLaunch(s, m)
         \/ ReserveMail(s) \/ SendMail(s) \/ MarkSent(s) \/ MarkFailed(s) \/ SenderDies(s)
  PROVE  MailInv' /\ SentStays
<1> DEFINE m == sender[s]
<1>1. \A f \in Mails : rowStatus = [rowStatus EXCEPT ![f] = rowStatus[f]]
                       /\ rowStatus[f] \in {"none", "PENDING", "SENT", "FAILED"}
  BY DEF MailInv, MailTypeOK
<1>2. sender = [sender EXCEPT ![s] = m] /\ Told \subseteq Mails /\ Launch \subseteq Mails
  BY DEF MailInv, MailTypeOK, Mails
<1>3. senderStep[s] # "idle" => m \in Mails
  BY DEF MailInv, SendersHold
<1>4. Reserved(s) /\ m \in Told =>
        rowStatus[m] = "PENDING" /\ \A t \in Senders \ {s} : ~(Reserved(t) /\ sender[t] = m)
  BY DEF MailInv, SendersHold, OneSender, Reserved
<1>5. mailed \subseteq Mails /\ SentWasTaken
  BY DEF MailInv, MailTypeOK
<1>6. CASE (\E x \in Told : TakeJob(s, x)) \/ \E x \in Launch : TakeLaunch(s, x)
  <2>1. PICK x \in Mails : BeginMail(s, x) /\ UNCHANGED <<rowStatus, mailed>>
    BY <1>2, <1>6 DEF TakeJob, TakeLaunch
  <2>2. MailInv'
    BY <1>5, <2>1, SenderGoesOn DEF BeginMail
  <2> QED BY <1>5, <2>1, <2>2 DEF SentStays, SentWasTaken
<1>7. CASE ReserveMail(s)
  <2>1. senderStep[s] = "reserve" /\ m \in Mails /\ UNCHANGED mailed
    BY <1>3, <1>7 DEF ReserveMail
  <2>2. CASE Reservable(m)
    <3>1. /\ rowStatus' = [rowStatus EXCEPT ![m] = "PENDING"] /\ sender' = [sender EXCEPT ![s] = m]
          /\ senderStep' = [senderStep EXCEPT ![s] = "send"]
      BY <1>2, <1>7, <2>2 DEF ReserveMail, Move
    <3>2. rowStatus[m] # "SENT" /\ (m \in Told => rowStatus[m] \in {"none", "FAILED"})
      BY <2>2 DEF Reservable, MailAssumption, Told
    <3>3. m \in Told => \A t \in Senders \ {s} : ~(Reserved(t) /\ sender[t] = m)
      BY <3>2 DEF MailInv, SendersHold
    <3>4. /\ rowStatus'[m] = "PENDING" /\ \A f \in Mails \ {m} : rowStatus'[f] = rowStatus[f]
          /\ rowStatus' \in [Mails -> {"none", "PENDING", "SENT", "FAILED"}]
      BY <2>1, <3>1 DEF MailInv, MailTypeOK
    <3>5. MailInv'
      <4> HIDE DEF m
      <4> QED BY <1>5, <2>1, <3>1, <3>3, <3>4, SenderGoes
    <3> QED BY <1>5, <3>2, <3>4, <3>5 DEF SentStays, SentWasTaken
  <2>3. CASE ~Reservable(m)
    <3>1. UNCHANGED rowStatus /\ Finish(s)
      BY <1>7, <2>3 DEF ReserveMail
    <3>2. MailInv'
      BY <1>5, <2>1, <3>1, SenderGoesOn DEF Finish
    <3> QED BY <1>5, <2>1, <3>1, <3>2 DEF SentStays, SentWasTaken
  <2> QED BY <2>2, <2>3
<1>8. CASE SendMail(s)
  <2>1. /\ senderStep[s] = "send" /\ m \in Mails /\ UNCHANGED rowStatus /\ sender' = [sender EXCEPT ![s] = m]
        /\ mailed' \in {mailed, mailed \cup {m}}
    BY <1>2, <1>3, <1>8 DEF SendMail, Move
  <2>2. PICK next \in {"sent", "failed"} :
          senderStep' = [senderStep EXCEPT ![s] = next] /\ (next = "sent" => m \in mailed')
    BY <1>8 DEF SendMail, Move
  <2>3. MailInv'
    <3>1. Reserved(s) /\ mailed \subseteq mailed' /\ mailed' \subseteq Mails
      BY <1>5, <2>1 DEF Reserved
    <3>2. m = sender[s]
      OBVIOUS
    <3> HIDE DEF m
    <3> QED BY <1>5, <2>1, <2>2, <3>1, <3>2, SenderGoesOn
  <2> QED BY <1>5, <2>1, <2>3 DEF SentStays, SentWasTaken
<1>9. CASE MarkSent(s)
  <2>1. senderStep[s] = "sent" /\ m \in Mails /\ m \in mailed /\ Finish(s) /\ UNCHANGED mailed
    BY <1>3, <1>9 DEF MarkSent, MailInv, SendersHold
  <2>2. PICK v \in {"SENT", rowStatus[m]} : rowStatus' = [rowStatus EXCEPT ![m] = v]
    BY <1>1, <1>3, <1>9 DEF MarkSent
  <2>3. v \in {"none", "PENDING", "SENT", "FAILED"} /\ (v = "SENT" \/ v = rowStatus[m])
    BY <1>1, <2>1, <2>2
  <2>4. /\ rowStatus'[m] = v /\ \A f \in Mails \ {m} : rowStatus'[f] = rowStatus[f]
        /\ rowStatus' \in [Mails -> {"none", "PENDING", "SENT", "FAILED"}]
    BY <2>1, <2>2, <2>3 DEF MailInv, MailTypeOK
  <2>5. MailInv'
    <3>1. rowStatus'[m] # rowStatus[m] /\ m \in Told =>
            \A t \in Senders \ {s} : ~(Reserved(t) /\ sender[t] = m)
      BY <1>4, <2>1 DEF Reserved
    <3>2. /\ rowStatus'[m] = "SENT" => m \in mailed'
          /\ mailed \subseteq mailed' /\ mailed' \subseteq Mails
      BY <1>5, <2>1, <2>3, <2>4 DEF SentWasTaken
    <3> HIDE DEF m
    <3> QED BY <2>1, <2>4, <3>1, <3>2, SenderEnds
  <2> QED BY <1>5, <2>1, <2>3, <2>4, <2>5 DEF SentStays, SentWasTaken
<1>10. CASE MarkFailed(s)
  <2>1. senderStep[s] = "failed" /\ m \in Mails /\ Finish(s) /\ UNCHANGED mailed
    BY <1>3, <1>10 DEF MarkFailed
  <2>2. PICK v \in {"FAILED", rowStatus[m]} :
          rowStatus' = [rowStatus EXCEPT ![m] = v] /\ (rowStatus[m] = "SENT" => v = "SENT")
    BY <1>1, <1>3, <1>10, <2>1 DEF MarkFailed, MayFail
  <2>3. v \in {"none", "PENDING", "SENT", "FAILED"} /\ (v = "SENT" => m \in mailed)
    BY <1>1, <1>5, <2>1, <2>2 DEF SentWasTaken
  <2>4. /\ rowStatus'[m] = v /\ \A f \in Mails \ {m} : rowStatus'[f] = rowStatus[f]
        /\ rowStatus' \in [Mails -> {"none", "PENDING", "SENT", "FAILED"}]
    BY <2>1, <2>2, <2>3 DEF MailInv, MailTypeOK
  <2>5. MailInv'
    <3>1. rowStatus'[m] # rowStatus[m] /\ m \in Told =>
            \A t \in Senders \ {s} : ~(Reserved(t) /\ sender[t] = m)
      BY <1>4, <2>1 DEF Reserved
    <3>2. /\ rowStatus'[m] = "SENT" => m \in mailed'
          /\ mailed \subseteq mailed' /\ mailed' \subseteq Mails
      BY <1>5, <2>1, <2>3, <2>4 DEF SentWasTaken
    <3> HIDE DEF m
    <3> QED BY <2>1, <2>4, <3>1, <3>2, SenderEnds
  <2> QED BY <1>5, <2>1, <2>2, <2>4, <2>5 DEF SentStays, SentWasTaken
<1>11. CASE SenderDies(s)
  <2>1. m \in Mails /\ Finish(s) /\ UNCHANGED <<rowStatus, mailed>>
    BY <1>3, <1>11 DEF SenderDies
  <2>2. MailInv'
    BY <1>5, <2>1, SenderGoesOn DEF Finish
  <2> QED BY <1>5, <2>1, <2>2 DEF SentStays, SentWasTaken
<1> QED BY <1>6, <1>7, <1>8, <1>9, <1>10, <1>11

(* The inductive invariant of the mails and their senders.                   *)
THEOREM MailInvariant ==
  ASSUME MailAssumption
  PROVE  MailSpec => []MailInv /\ [][SentStays]_mailVars
<1>1. MailInit => MailInv
  BY MailStarts
<1>2. ASSUME MailInv, [MailNext]_mailVars PROVE MailInv' /\ [SentStays]_mailVars
  <2>1. CASE UNCHANGED mailVars
    BY <1>2, <2>1 DEF mailVars, MailInv, MailTypeOK, SendersHold, Reserved, SentWasTaken, OneSender
  <2>2. CASE \E m \in Told : Enqueue(m) \/ RetryNotification(m)
    BY <1>2, <2>2 DEF Enqueue, RetryNotification, MailInv, MailTypeOK, SendersHold, Reserved, SentWasTaken,
       OneSender, SentStays
  <2> QED BY <1>2, <2>1, <2>2, MailActions DEF MailNext
<1> QED BY <1>1, <1>2, PTL DEF MailSpec

(* A job's mail has one sender between its reservation and its answer, and a *)
(* row that says SENT was taken by the provider and keeps saying so.         *)
THEOREM SentMailsStaySent ==
  ASSUME MailAssumption
  PROVE  MailSpec => SentIsMailed
<1>1. MailInv => OneSender
  BY DEF MailInv
<1> QED BY <1>1, MailInvariant, PTL DEF SentIsMailed

-----------------------------------------------------------------------------
(* DesignerPanel.                                                            *)

Shown == StudioIssues \cup {None}
ActionRecord ==
  [kind : {"none", "act", "override", "upload", "reveal"}, selection : Nat, issue : Shown, of : Shown,
   stage : {"idle", "send", "refresh", "candidates"}]
StudioTypeOK ==
  /\ selected \in Shown
  /\ selection \in Nat
  /\ shown \in [Parts -> Shown]
  /\ details \in SUBSET [selection : Nat, issue : Shown]
  /\ action \in ActionRecord

(* What is on its way is of an earlier selection, or of the present one.     *)
OfItsSelection(x) == x.selection <= selection /\ (x.selection = selection => x.issue = selected)
StudioInv ==
  /\ StudioTypeOK
  /\ \A d \in details : OfItsSelection(d)
  /\ action # NoAction => OfItsSelection(action)
  /\ StudioShowsSelected

(* The studio begins an action on the issue it shows.                        *)
LEMMA ActionBegins ==
  ASSUME StudioInv, NEW kind \in {"act", "override", "upload", "reveal"}, NEW of \in Shown,
         BeginAction(kind, of), kind \in {"override", "upload"} => of = selected
  PROVE  StudioInv'
<1> DEFINE a == [kind |-> kind, selection |-> selection, issue |-> selected, of |-> of, stage |-> "send"]
<1>1. action' = a /\ UNCHANGED <<selected, selection, shown, details>>
  BY DEF BeginAction
<1>2. /\ a \in ActionRecord /\ a.selection = selection /\ a.issue = selected
      /\ a.kind \in {"override", "upload"} => a.of = a.issue
  BY DEF ActionRecord, StudioInv, StudioTypeOK
<1> HIDE DEF a
<1> QED BY <1>1, <1>2 DEF StudioInv, StudioTypeOK, OfItsSelection, StudioShowsSelected

(* Answers change what is shown of the selection they were asked in only.    *)
LEMMA AnswersArrive ==
  ASSUME StudioInv,
         \/ \E d \in details : DetailArrives(d) \/ DetailFails(d)
         \/ StudioAnswered \/ StudioRefreshed \/ CandidatesArrive \/ ActionFails
  PROVE  StudioInv'
<1> USE DEF StudioInv, StudioTypeOK
<1>1. NoAction \in ActionRecord /\ NoAction.kind = "none"
  BY DEF NoAction, ActionRecord, Shown
<1>2. CASE \E d \in details : DetailArrives(d) \/ DetailFails(d)
  <2>1. PICK d \in details : DetailArrives(d) \/ DetailFails(d)
    BY <1>2
  <2>2. /\ details' = details \ {d} /\ UNCHANGED <<selected, selection, action>>
        /\ \/ UNCHANGED shown
           \/ /\ d.issue = selected /\ d.issue \in Shown
              /\ shown' = [shown EXCEPT !["candidates"] = d.issue, !["policy"] = d.issue]
    BY <2>1 DEF DetailArrives, DetailFails, Current, OfItsSelection
  <2>3. shown' \in [Parts -> Shown] /\ \A p \in Parts : shown'[p] \in {shown[p], selected}
    BY <2>2 DEF Parts
  <2> QED BY <2>2, <2>3 DEF OfItsSelection, StudioShowsSelected, Parts
<1>3. CASE StudioAnswered
  <2>1. /\ action.stage = "send" /\ UNCHANGED <<selected, selection, details>>
        /\ action' = IF action.kind = "reveal" THEN NoAction ELSE [action EXCEPT !.stage = "refresh"]
    BY <1>3 DEF StudioAnswered
  <2>2. action # NoAction
    BY <2>1 DEF NoAction
  <2>3. /\ action' \in ActionRecord
        /\ \/ action' = NoAction
           \/ /\ action'.selection = action.selection /\ action'.issue = action.issue
              /\ action'.kind = action.kind /\ action'.of = action.of
    BY <1>1, <2>1 DEF ActionRecord
  <2>4. shown' \in [Parts -> Shown] /\ \A p \in Parts : shown'[p] \in {None, shown[p], selected}
    BY <1>3, <2>2 DEF StudioAnswered, Current, OfItsSelection, Parts, ActionRecord, Shown
  <2> QED BY <1>1, <2>1, <2>2, <2>3, <2>4 DEF OfItsSelection, StudioShowsSelected, Parts
<1>4. CASE StudioRefreshed
  <2>1. /\ action.stage = "refresh" /\ UNCHANGED <<selected, selection, shown, details>>
        /\ action' \in {NoAction, [action EXCEPT !.stage = "candidates"]}
    BY <1>4 DEF StudioRefreshed
  <2>2. action # NoAction
    BY <2>1 DEF NoAction
  <2>3. /\ action' \in ActionRecord
        /\ \/ action' = NoAction
           \/ /\ action'.selection = action.selection /\ action'.issue = action.issue
              /\ action'.kind = action.kind /\ action'.of = action.of
    BY <1>1, <2>1 DEF ActionRecord
  <2> QED BY <1>1, <2>1, <2>2, <2>3 DEF OfItsSelection, StudioShowsSelected
<1>5. CASE CandidatesArrive
  <2>1. /\ action' = NoAction /\ UNCHANGED <<selected, selection, details>>
        /\ shown' = [shown EXCEPT !["candidates"] = action.issue]
    BY <1>5 DEF CandidatesArrive
  <2>2. shown' \in [Parts -> Shown] /\ \A p \in Parts \ {"candidates"} : shown'[p] = shown[p]
    BY <2>1 DEF Parts, ActionRecord
  <2> QED BY <1>1, <2>1, <2>2 DEF OfItsSelection, StudioShowsSelected, Parts
<1>6. CASE ActionFails
  BY <1>1, <1>6 DEF ActionFails, OfItsSelection, StudioShowsSelected
<1> QED BY <1>2, <1>3, <1>4, <1>5, <1>6

(* The owner's clicks.                                                       *)
LEMMA OwnerClicks ==
  ASSUME StudioInv,
         \/ \E i \in StudioIssues : ChooseIssue(i)
         \/ Act \/ SelectCandidate \/ SaveOverride \/ Upload \/ Reveal \/ PickFile \/ HideAnswers
  PROVE  StudioInv'
<1>1. /\ \A p \in Parts : shown[p] \in Shown
      /\ \A p \in {"policy", "answers", "file"} : p \in Parts /\ shown[p] \in {None, selected}
      /\ None \in Shown
  BY DEF StudioInv, StudioTypeOK, StudioShowsSelected, Parts, Shown
<1>2. CASE \E i \in StudioIssues : ChooseIssue(i)
  <2>1. PICK i \in StudioIssues : ChooseIssue(i)
    BY <1>2
  <2> DEFINE n == [selection |-> selection + 1, issue |-> i]
  <2>2. /\ selection' = selection + 1 /\ selected' = i /\ shown' = [p \in Parts |-> None]
        /\ details' = details \cup {n} /\ UNCHANGED action
    BY <2>1 DEF ChooseIssue, ClearOnChoose, Cleared
  <2>3. /\ selection \in Nat /\ n \in [selection : Nat, issue : Shown]
        /\ n.selection = selection' /\ n.issue = selected'
    BY <2>2 DEF StudioInv, StudioTypeOK, Shown
  <2> HIDE DEF n
  <2>4. ASSUME NEW x, x.selection \in Nat, OfItsSelection(x) PROVE OfItsSelection(x)'
    BY <2>2, <2>3, <2>4 DEF OfItsSelection
  <2>5. \A d \in details' : OfItsSelection(d)'
    <3> TAKE d \in details'
    <3>1. CASE d = n
      BY <2>2, <2>3, <3>1 DEF OfItsSelection
    <3>2. CASE d \in details
      <4>1. d.selection \in Nat /\ d.selection < selection'
        BY <2>2, <2>3, <3>2 DEF StudioInv, StudioTypeOK, OfItsSelection
      <4> QED BY <2>2, <2>3, <4>1 DEF OfItsSelection
    <3> QED BY <2>2, <3>1, <3>2
  <2>6. action' # NoAction => OfItsSelection(action)'
    BY <2>2, <2>3 DEF StudioInv, StudioTypeOK, ActionRecord, OfItsSelection
  <2>7. StudioTypeOK'
    BY <1>1, <2>2, <2>3 DEF StudioInv, StudioTypeOK, Shown
  <2>8. StudioShowsSelected'
    BY <2>2 DEF StudioInv, StudioShowsSelected, Parts
  <2> QED BY <2>5, <2>6, <2>7, <2>8 DEF StudioInv
<1>3. CASE Act
  BY <1>1, <1>3, ActionBegins DEF Act
<1>4. CASE SelectCandidate
  BY <1>1, <1>4, ActionBegins DEF SelectCandidate, Parts
<1>5. CASE SaveOverride
  BY <1>1, <1>5, ActionBegins DEF SaveOverride
<1>6. CASE Upload
  BY <1>1, <1>6, ActionBegins DEF Upload
<1>7. CASE Reveal
  BY <1>1, <1>7, ActionBegins DEF Reveal
<1>8. CASE PickFile \/ HideAnswers
  <2>1. PICK p \in {"file", "answers"}, v \in {None, selected} :
          shown' = [shown EXCEPT ![p] = v] /\ UNCHANGED <<selected, selection, details, action>>
    BY <1>8 DEF PickFile, HideAnswers
  <2>2. shown' \in [Parts -> Shown] /\ \A x \in Parts : shown'[x] \in {None, shown[x], selected}
    BY <1>1, <2>1 DEF StudioInv, StudioTypeOK, Parts
  <2> QED BY <2>1, <2>2 DEF StudioInv, StudioTypeOK, OfItsSelection, StudioShowsSelected, Parts
<1> QED BY <1>2, <1>3, <1>4, <1>5, <1>6, <1>7, <1>8

(* The answers, the policy and the file on the screen are the selected       *)
(* Issue's, and an override extends the policy of the Issue it is for        *)
(* (DesignerPanel.tsx), in whichever order the server answers.               *)
THEOREM StudioIsOfSelection == StudioSpec => []StudioShowsSelected
<1>1. StudioInit => StudioInv
  BY DEF StudioInit, StudioInv, StudioTypeOK, StudioShowsSelected, NoAction, ActionRecord, Shown, Parts
<1>2. ASSUME StudioInv, [StudioNext]_studioVars PROVE StudioInv'
  <2>1. CASE UNCHANGED studioVars
    BY <1>2, <2>1 DEF studioVars, StudioInv, StudioTypeOK, OfItsSelection, StudioShowsSelected
  <2> QED BY <1>2, <2>1, AnswersArrive, OwnerClicks DEF StudioNext
<1>3. StudioInv => StudioShowsSelected
  BY DEF StudioInv
<1> QED BY <1>1, <1>2, <1>3, PTL DEF StudioSpec

-----------------------------------------------------------------------------
(* ReferralsPanel.                                                           *)

SnapshotRecord == [creators : SUBSET AllCreators, payouts : [AllCreators -> Nat]]
PanelKinds == {"none", "create", "change", "request", "reveal", "settle"}

PanelTypeOK ==
  /\ server \in SnapshotRecord /\ server.payouts[New] = 0
  /\ snapshot \in SnapshotRecord /\ snapshot.payouts[New] = 0
  /\ selectedCreatorId \in AllCreators
  /\ privateViewGeneration \in Nat
  /\ selectionGeneration \in Nat

(* A destination is asked for and shown beside its own payout, or beside a   *)
(* creator just added, who has none; a refresh finds nothing revealed.       *)
Beside(p) == p = SelectedPayout \/ selectedCreatorId = New
PanelCallKnows ==
  LET c == panelCall IN
  /\ c.kind \in PanelKinds /\ c.view \in Nat /\ c.selection \in Nat
  /\ c.view <= privateViewGeneration /\ c.selection <= selectionGeneration
  /\ c.stage = "send" => c.kind # "none"
  /\ c.kind \notin {"none", "reveal"} =>
       /\ c.of \in AllCreators
       /\ c.kind = "request" => c.of \in Known
       /\ c.selection # selectionGeneration => revealed = None
  /\ c.stage = "refresh" => c.kind \notin {"none", "reveal"} /\ revealed = None
  /\ c.kind = "reveal" /\ c.view = privateViewGeneration => Beside(c.of)

PanelInv ==
  /\ PanelTypeOK /\ PanelCallKnows
  /\ DOMAIN panelCall = DOMAIN NoPanelCall
  /\ revealed # None => Beside(revealed)

(* Nobody earns a payout without a sale, and a new creator has none.         *)
LEMMA AppliedKeeps ==
  ASSUME PanelAssumption, PanelInv, NEW kind \in PanelKinds, NEW of, kind = "request" => of \in Known
  PROVE  Applied(kind, of) \in SnapshotRecord /\ Applied(kind, of).payouts[New] = 0
<1>1. server \in SnapshotRecord /\ server.payouts[New] = 0
  BY DEF PanelInv, PanelTypeOK
<1>2. CASE kind = "create"
  BY <1>1, <1>2 DEF Applied, SnapshotRecord, AllCreators
<1>3. CASE kind = "request" /\ server.payouts[of] < MaxPanelPayouts
  <2> DEFINE p == [server.payouts EXCEPT ![of] = @ + 1]
  <2>1. p \in [AllCreators -> Nat] /\ p[New] = 0
    BY <1>1, <1>3 DEF SnapshotRecord, AllCreators, PanelAssumption
  <2>2. Applied(kind, of) = [server EXCEPT !.payouts = p]
    BY <1>1, <1>3 DEF Applied, SnapshotRecord
  <2> HIDE DEF p
  <2> QED BY <1>1, <2>1, <2>2 DEF SnapshotRecord
<1>4. CASE Applied(kind, of) = server
  BY <1>1, <1>4
<1> QED BY <1>2, <1>3, <1>4 DEF Applied

(* A new creator's list is empty.                                            *)
LEMMA NewHasNoPayout ==
  ASSUME PanelInv, selectedCreatorId = New PROVE SelectedPayout = None
<1>1. snapshot.payouts[New] = 0
  BY DEF PanelInv, PanelTypeOK
<1>2. PayoutsOf(selectedCreatorId) = {}
  BY <1>1 DEF PayoutsOf
<1> QED BY <1>2 DEF SelectedPayout

(* What is selected, and the payouts beside it, depend on three variables only. *)
LEMMA SelectionStays ==
  ASSUME UNCHANGED <<snapshot, selectedCreatorId, payoutId>>
  PROVE  UNCHANGED SelectedPayout /\ \A p : Beside(p)' = Beside(p)
BY DEF SelectedPayout, PayoutsOf, Beside

(* A button: the call carries what the panel held when it was pressed.       *)
LEMMA PressKeeps ==
  ASSUME PanelInv, NEW kind \in PanelKinds \ {"none"}, NEW of, Press(kind, of),
         kind # "reveal" => of \in AllCreators, kind = "request" => of \in Known,
         kind = "reveal" => of = SelectedPayout
  PROVE  PanelInv'
<1> DEFINE c == [kind |-> kind, selection |-> selectionGeneration, view |-> privateViewGeneration,
                 of |-> of, stage |-> "send"]
<1>1. panelCall' = c /\ UNCHANGED <<server, snapshot, owner, trailing>>
  BY DEF Press
<1>2. /\ c.kind = kind /\ c.selection = selectionGeneration /\ c.view = privateViewGeneration /\ c.of = of
      /\ c.stage = "send" /\ DOMAIN c = DOMAIN NoPanelCall
  BY DEF NoPanelCall
<1> HIDE DEF c
<1>3. \A p : Beside(p)' = Beside(p)
  BY <1>1, SelectionStays DEF owner
<1>4. kind = "reveal" => Beside(of)
  BY DEF Beside
<1>5. PanelTypeOK'
  BY <1>1 DEF PanelInv, PanelTypeOK, owner
<1>6. PanelCallKnows'
  BY <1>1, <1>2, <1>3, <1>4 DEF PanelInv, PanelTypeOK, PanelCallKnows, owner
<1> QED BY <1>1, <1>2, <1>3, <1>5, <1>6 DEF PanelInv, owner

(* A choice of the owner hides the destination and outdates the reveal.      *)
LEMMA ChoiceKeeps ==
  ASSUME PanelInv,
         (\E c \in AllCreators : ChooseCreator(c)) \/ (\E p \in PanelPayout : ChoosePayout(p))
  PROVE  PanelInv'
<1>1. /\ privateViewGeneration' = privateViewGeneration + 1 /\ revealed' = None
      /\ selectionGeneration' \in {selectionGeneration, selectionGeneration + 1}
      /\ selectedCreatorId' \in AllCreators
      /\ UNCHANGED <<server, snapshot, panelCall>>
  BY DEF ChooseCreator, ChoosePayout, ClearPrivatePayoutView, OutdateView, Bump, PanelInv, PanelTypeOK
<1>2. PanelTypeOK'
  BY <1>1 DEF PanelInv, PanelTypeOK
<1>3. PanelCallKnows'
  BY <1>1 DEF PanelInv, PanelTypeOK, PanelCallKnows
<1> QED BY <1>1, <1>2, <1>3 DEF PanelInv

(* The answers, and the refreshes that follow them.                          *)
LEMMA AnsweredKeeps ==
  ASSUME PanelAssumption, PanelInv, ChangeAnswered \/ Revealed
  PROVE  PanelInv'
<1> DEFINE c == panelCall
<1>0. panelCall.kind \in PanelKinds
  BY DEF PanelInv, PanelCallKnows
<1>1. CASE ChangeAnswered
  <2>1. /\ c.stage = "send" /\ c.kind # "reveal" /\ c.kind # "none"
        /\ server' = Applied(c.kind, c.of) /\ c' = [c EXCEPT !.stage = "refresh"]
        /\ UNCHANGED <<snapshot, selectedCreatorId, payoutId, selectionGeneration>>
    BY <1>1 DEF ChangeAnswered, PanelInv, PanelCallKnows
  <2>2. /\ c.selection = selectionGeneration =>
             revealed' = None /\ privateViewGeneration' = privateViewGeneration + 1
        /\ c.selection # selectionGeneration => UNCHANGED <<revealed, privateViewGeneration>>
    BY <1>1 DEF ChangeAnswered, ClearPrivatePayoutView, OutdateView, Bump
  <2>3. server' \in SnapshotRecord /\ server'.payouts[New] = 0
    BY <1>0, <2>1, AppliedKeeps DEF PanelInv, PanelCallKnows
  <2>4. revealed' = None
    BY <2>1, <2>2 DEF PanelInv, PanelCallKnows
  <2>5. PanelTypeOK'
    BY <2>1, <2>2, <2>3 DEF PanelInv, PanelTypeOK
  <2>6. /\ c'.kind = c.kind /\ c'.view = c.view /\ c'.selection = c.selection /\ c'.of = c.of
        /\ c'.stage = "refresh" /\ DOMAIN c' = DOMAIN c
    BY <2>1 DEF PanelInv, NoPanelCall
  <2>7. PanelCallKnows'
    BY <2>1, <2>2, <2>4, <2>6 DEF PanelInv, PanelTypeOK, PanelCallKnows
  <2> QED BY <2>4, <2>5, <2>6, <2>7 DEF PanelInv
<1>2. CASE Revealed
  <2>1. /\ c.stage = "send" /\ c.kind = "reveal" /\ c' = NoPanelCall
        /\ revealed' \in {revealed, c.of} /\ (c.view # privateViewGeneration => revealed' = revealed)
        /\ UNCHANGED <<server, snapshot, selectedCreatorId, payoutId, selectionGeneration,
                       privateViewGeneration>>
    BY <1>2 DEF Revealed, SameView
  <2>2. \A p : Beside(p)' = Beside(p)
    BY <2>1, SelectionStays
  <2>3. revealed' # None => Beside(revealed')
    BY <2>1 DEF PanelInv, PanelCallKnows
  <2>4. PanelTypeOK'
    BY <2>1 DEF PanelInv, PanelTypeOK
  <2>5. PanelCallKnows'
    BY <2>1 DEF PanelInv, PanelTypeOK, PanelCallKnows, NoPanelCall, PanelKinds
  <2> QED BY <2>1, <2>2, <2>3, <2>4, <2>5 DEF PanelInv
<1> QED BY <1>1, <1>2

(* The panel takes the ledger's snapshot, with its call or after it.         *)
LEMMA RefreshKeeps ==
  ASSUME PanelAssumption, PanelInv, SnapshotRefreshed \/ TrailingRefresh
  PROVE  PanelInv'
<1>1. CASE SnapshotRefreshed
  <2>1. /\ panelCall.stage = "refresh" /\ panelCall' = NoPanelCall /\ snapshot' = server
        /\ selectedCreatorId' \in {panelCall.of, selectedCreatorId}
        /\ UNCHANGED <<server, revealed, selectionGeneration, privateViewGeneration>>
    BY <1>1 DEF SnapshotRefreshed
  <2>2. PanelTypeOK' /\ revealed' = None
    BY <2>1 DEF PanelInv, PanelTypeOK, PanelCallKnows
  <2>3. PanelCallKnows'
    BY <2>1 DEF PanelInv, PanelTypeOK, PanelCallKnows, NoPanelCall, PanelKinds
  <2> QED BY <2>1, <2>2, <2>3 DEF PanelInv
<1>2. CASE TrailingRefresh
  <2>1. /\ snapshot' = server /\ selectedCreatorId' = New
        /\ UNCHANGED <<server, payoutId, revealed, selectionGeneration, privateViewGeneration, panelCall>>
    BY <1>2 DEF TrailingRefresh
  <2>2. PanelTypeOK' /\ \A p : Beside(p)'
    BY <2>1 DEF PanelInv, PanelTypeOK, AllCreators, Beside
  <2>3. PanelCallKnows'
    BY <2>1, <2>2 DEF PanelInv, PanelCallKnows
  <2> QED BY <2>1, <2>2, <2>3 DEF PanelInv
<1> QED BY <1>1, <1>2

(* The ledger changes elsewhere, or a call or a refresh fails.               *)
LEMMA OutsideKeeps ==
  ASSUME PanelAssumption, PanelInv, Elsewhere \/ CallFails \/ TrailingFails
  PROVE  PanelInv'
<1>0. panelCall.kind \in PanelKinds /\ server \in SnapshotRecord /\ server.payouts[New] = 0
  BY DEF PanelInv, PanelTypeOK, PanelCallKnows
<1>1. UNCHANGED <<snapshot, owner>> /\ (panelCall' = panelCall \/ panelCall' = NoPanelCall)
  BY DEF Elsewhere, CallFails, TrailingFails
<1>2. server' \in SnapshotRecord /\ server'.payouts[New] = 0
  <2>1. CASE Elsewhere
    BY <2>1, AppliedKeeps DEF Elsewhere, PanelKinds
  <2>2. CASE CallFails
    <3>1. server' = server \/ server' = Applied(panelCall.kind, panelCall.of)
      BY <2>2 DEF CallFails
    <3>2. panelCall.kind = "request" => panelCall.of \in Known
      BY DEF PanelInv, PanelCallKnows
    <3> QED BY <1>0, <3>1, <3>2, AppliedKeeps
  <2>3. CASE TrailingFails
    BY <1>0, <2>3 DEF TrailingFails
  <2> QED BY <2>1, <2>2, <2>3
<1>3. PanelTypeOK' /\ \A p : Beside(p)' = Beside(p)
  BY <1>1, <1>2, SelectionStays DEF PanelInv, PanelTypeOK, owner
<1>4. PanelCallKnows'
  BY <1>1, <1>3 DEF PanelInv, PanelTypeOK, PanelCallKnows, NoPanelCall, PanelKinds, owner
<1> QED BY <1>1, <1>3, <1>4 DEF PanelInv, owner

(* A destination is shown beside its own payout only (ReferralsPanel.tsx),   *)
(* although it arrives after the owner moved on or the snapshot changed.     *)
THEOREM DestinationIsOfPayout ==
  ASSUME PanelAssumption
  PROVE  PanelSpec => []RevealedIsSelected
<1>1. PanelInit => PanelInv
  <2> SUFFICES ASSUME PanelInit PROVE PanelInv
    OBVIOUS
  <2>1. /\ server = [creators |-> Known, payouts |-> [c \in AllCreators |-> IF c \in Known THEN 1 ELSE 0]]
        /\ snapshot = server /\ selectedCreatorId \in Known /\ revealed = None
        /\ selectionGeneration = 0 /\ privateViewGeneration = 0 /\ panelCall = NoPanelCall
    BY DEF PanelInit
  <2>2. server \in SnapshotRecord /\ server.payouts[New] = 0
    BY <2>1 DEF SnapshotRecord, AllCreators, PanelAssumption
  <2> QED BY <2>1, <2>2 DEF PanelInv, PanelTypeOK, PanelCallKnows, NoPanelCall, PanelKinds, AllCreators
<1>2. ASSUME PanelInv, [PanelNext]_panelVars PROVE PanelInv'
  <2>1. CASE UNCHANGED panelVars
    <3>1. \A p : Beside(p)' = Beside(p)
      BY <2>1, SelectionStays DEF panelVars, owner
    <3> QED BY <1>2, <2>1, <3>1 DEF panelVars, owner, PanelInv, PanelTypeOK, PanelCallKnows
  <2>2. CASE PressCreate \/ PressChange \/ PressRequest \/ PressReveal \/ PressMarkPaid
    <3>1. selectedCreatorId \in AllCreators
      BY <1>2 DEF PanelInv, PanelTypeOK
    <3>2. CASE PressCreate
      BY <1>2, <3>1, <3>2, PressKeeps DEF PressCreate, PanelKinds
    <3>3. CASE PressChange
      BY <1>2, <3>1, <3>3, PressKeeps DEF PressChange, PanelKinds
    <3>4. CASE PressRequest
      BY <1>2, <3>1, <3>4, PressKeeps DEF PressRequest, PanelKinds
    <3>5. CASE PressReveal
      BY <1>2, <3>5, PressKeeps DEF PressReveal, PanelKinds
    <3>6. CASE PressMarkPaid
      BY <1>2, <3>1, <3>6, PressKeeps DEF PressMarkPaid, PanelKinds
    <3> QED BY <2>2, <3>2, <3>3, <3>4, <3>5, <3>6
  <2> QED BY <1>2, <2>1, <2>2, ChoiceKeeps, AnsweredKeeps, RefreshKeeps, OutsideKeeps DEF PanelNext
<1>3. PanelInv => RevealedIsSelected
  BY NewHasNoPayout DEF PanelInv, Beside, RevealedIsSelected
<1> QED BY <1>1, <1>2, <1>3, PTL DEF PanelSpec

-----------------------------------------------------------------------------
(* OwnerLedger.                                                              *)

(* A set of numbers that is not empty has a least one.                       *)
LEMMA LeastOf ==
  ASSUME NEW T, T \subseteq Nat, T # {}
  PROVE  \E n \in T : \A m \in T : n <= m
<1> DEFINE R == OpToRel(<, Nat)
<1>1. IsWellFoundedOn(R, Nat)
  BY NatLessThanWellFounded
<1>2. \A m, n \in Nat : <<m, n>> \in R <=> m < n
  BY DEF OpToRel
<1> HIDE DEF R
<1>3. PICK n \in T : \A m \in T : ~(<<m, n>> \in R)
  BY <1>1, WFMin
<1>4. n \in Nat /\ \A m \in T : m \in Nat /\ ~(m < n)
  BY <1>2, <1>3
<1>5. \A m \in T : n <= m
  BY <1>4
<1> QED BY <1>3, <1>5

(* What Keep makes of the first i elements of a list.                        *)
Unrolls(k, list, S, n) ==
  \A i \in 0..n : k[i] = IF i = 0 THEN <<>>
                         ELSE IF list[i] \in S THEN Append(k[i - 1], list[i]) ELSE k[i - 1]

(* The function that Keep is defined by exists: a list whose first i         *)
(* elements admit none would have a shortest such i.                         *)
LEMMA KeptExists ==
  ASSUME NEW list \in Seq(Nat), NEW S
  PROVE  \E k \in [0..Len(list) -> Seq(Nat)] : Unrolls(k, list, S, Len(list))
<1> DEFINE D == 0..Len(list)
           Bad == {n \in D : ~\E k \in [D -> Seq(Nat)] : Unrolls(k, list, S, n)}
<1>0. Len(list) \in Nat /\ D \subseteq Nat
  OBVIOUS
<1>1. Bad = {}
  <2> SUFFICES ASSUME Bad # {} PROVE FALSE
    OBVIOUS
  <2>1. PICK n \in Bad : \A m \in Bad : n <= m
    BY <1>0, LeastOf
  <2>0. n \in Nat /\ n \in D
    BY <1>0, <2>1
  <2>2. CASE n = 0
    <3> DEFINE k == [i \in D |-> <<>>]
    <3>1. k \in [D -> Seq(Nat)] /\ Unrolls(k, list, S, n)
      BY <2>2 DEF Unrolls
    <3> QED BY <2>1, <3>1
  <2>3. CASE n # 0
    <3>0. n - 1 \in D /\ ~(n <= n - 1) /\ n - 1 \in Nat /\ n \in 1..Len(list)
      BY <1>0, <2>0, <2>3
    <3>1. n - 1 \notin Bad
      <4> HIDE DEF Bad
      <4> QED BY <2>1, <3>0
    <3>2. PICK k \in [D -> Seq(Nat)] : Unrolls(k, list, S, n - 1)
      BY <3>0, <3>1
    <3> DEFINE v == IF list[n] \in S THEN Append(k[n - 1], list[n]) ELSE k[n - 1]
               h == [k EXCEPT ![n] = v]
    <3>3. v \in Seq(Nat)
      <4>1. list[n] \in Nat
        BY <3>0
      <4>2. k[n - 1] \in Seq(Nat)
        BY <3>0, <3>2
      <4> QED BY <4>1, <4>2
    <3>4. h \in [D -> Seq(Nat)] /\ h[n] = v /\ \A i \in D : i # n => h[i] = k[i]
      BY <2>0, <3>3
    <3>5. ASSUME NEW i \in 0..n
          PROVE  h[i] = IF i = 0 THEN <<>> ELSE IF list[i] \in S THEN Append(h[i - 1], list[i]) ELSE h[i - 1]
      <4> HIDE DEF h
      <4>1. CASE i = n
        <5>1. h[i] = v /\ h[i - 1] = k[i - 1]
          BY <2>0, <2>3, <3>0, <3>4, <4>1
        <5> QED BY <2>3, <4>1, <5>1
      <4>2. CASE i # n
        <5>1. i \in 0..(n - 1) /\ h[i] = k[i] /\ (i # 0 => h[i - 1] = k[i - 1])
          BY <1>0, <2>0, <3>4, <4>2
        <5> QED BY <3>2, <5>1 DEF Unrolls
      <4> QED BY <4>1, <4>2
    <3> HIDE DEF h, D
    <3>6. h \in [D -> Seq(Nat)] /\ Unrolls(h, list, S, n)
      BY <3>4, <3>5 DEF Unrolls
    <3> QED BY <2>1, <3>6
  <2> QED BY <2>2, <2>3
<1>2. Len(list) \in D
  BY <1>0
<1> QED BY <1>1, <1>2

(* Keep returns the members of the list in the set, and each once if the     *)
(* list has each once.                                                       *)
LEMMA KeepIs ==
  ASSUME NEW list \in Seq(Nat), NEW S
  PROVE  /\ Keep(list, S) \in Seq(Nat)
         /\ Range(Keep(list, S)) = Range(list) \cap S
         /\ IsInjective(list) => IsInjective(Keep(list, S))
<1> DEFINE D == 0..Len(list)
           Body(k) == [i \in D |->
                         IF i = 0 THEN <<>>
                         ELSE IF list[i] \in S THEN Append(k[i - 1], list[i]) ELSE k[i - 1]]
           kept == CHOOSE k : k = Body(k)
<1>1. Keep(list, S) = kept[Len(list)]
  BY DEF Keep
<1>2. PICK k \in [D -> Seq(Nat)] : Unrolls(k, list, S, Len(list))
  BY KeptExists
<1>3. k = Body(k)
  BY <1>2 DEF Unrolls
<1>4. kept = Body(kept)
  BY <1>3
<1> HIDE DEF kept
<1>5. Unrolls(kept, list, S, Len(list))
  BY <1>4 DEF Unrolls
<1> HIDE DEF Body
<1> DEFINE Good(i) == /\ kept[i] \in Seq(Nat)
                      /\ \A r : r \in Range(kept[i]) <=> r \in S /\ \E j \in 1..i : list[j] = r
                      /\ IsInjective(list) => IsInjective(kept[i])
           Bad == {i \in D : ~Good(i)}
<1>0. Len(list) \in Nat /\ D \subseteq Nat
  OBVIOUS
<1>6. Bad = {}
  <2> SUFFICES ASSUME Bad # {} PROVE FALSE
    OBVIOUS
  <2>1. PICK n \in Bad : \A m \in Bad : n <= m
    BY <1>0, LeastOf
  <2>0. n \in Nat /\ n \in D
    BY <1>0, <2>1
  <2>2. CASE n = 0
    <3>1. kept[n] = <<>>
      BY <1>0, <1>5, <2>2 DEF Unrolls
    <3>2. Good(n)
      BY <2>2, <3>1 DEF Range, IsInjective
    <3> QED BY <2>1, <3>2
  <2>3. CASE n # 0
    <3>0. n - 1 \in D /\ ~(n <= n - 1) /\ n \in 1..Len(list)
      BY <1>0, <2>0, <2>3
    <3>1. Good(n - 1)
      <4>1. n - 1 \notin Bad
        <5> HIDE DEF Bad
        <5> QED BY <2>1, <3>0
      <4> HIDE DEF Good
      <4> QED BY <3>0, <4>1
    <3>2. kept[n] = IF list[n] \in S THEN Append(kept[n - 1], list[n]) ELSE kept[n - 1]
      BY <1>5, <2>0, <2>3 DEF Unrolls
    <3>3. \A r : (\E j \in 1..n : list[j] = r) <=> (r = list[n] \/ \E j \in 1..(n - 1) : list[j] = r)
      <4>1. 1..n = 1..(n - 1) \cup {n}
        BY <2>0, <3>0
      <4> QED BY <4>1
    <3> DEFINE k1 == kept[n - 1]
               k2 == kept[n]
    <3>4. k1 \in Seq(Nat) /\ list[n] \in Nat
      BY <3>0, <3>1
    <3>5. CASE list[n] \notin S
      <4>1. k2 = k1
        BY <3>2, <3>5
      <4>2. Good(n)
        BY <3>1, <3>3, <3>5, <4>1
      <4> QED BY <2>1, <4>2
    <3>6. CASE list[n] \in S
      <4>1. k2 = Append(k1, list[n])
        BY <3>2, <3>6
      <4> HIDE DEF k1, k2
      <4>2. /\ k2 \in Seq(Nat) /\ Len(k2) = Len(k1) + 1 /\ k2[Len(k1) + 1] = list[n]
            /\ \A i \in 1..Len(k1) : k2[i] = k1[i]
        BY <3>4, <4>1
      <4>3. \A r : r \in Range(k2) <=> r \in Range(k1) \/ r = list[n]
        <5>1. 1..Len(k2) = 1..Len(k1) \cup {Len(k1) + 1} /\ DOMAIN k1 = 1..Len(k1) /\ DOMAIN k2 = 1..Len(k2)
          BY <3>4, <4>2
        <5>2. \A r : r \in Range(k2) <=> \E i \in 1..Len(k1) \cup {Len(k1) + 1} : k2[i] = r
          BY <5>1 DEF Range
        <5>3. \A r : r \in Range(k1) <=> \E i \in 1..Len(k1) : k1[i] = r
          BY <5>1 DEF Range
        <5> QED BY <4>2, <5>2, <5>3
      <4>4. ASSUME IsInjective(list) PROVE IsInjective(k2)
        <5>1. IsInjective(k1)
          BY <3>1, <4>4 DEF k1
        <5>2. list[n] \notin Range(k1)
          <6>1. \A j \in 1..(n - 1) : list[j] # list[n]
            BY <3>0, <4>4 DEF IsInjective
          <6> QED BY <3>1, <6>1 DEF k1
        <5>3. \A i \in 1..Len(k1) : k1[i] # list[n]
          BY <3>4, <5>2 DEF Range
        <5>4. \A i, j \in 1..Len(k1) : k1[i] = k1[j] => i = j
          BY <3>4, <5>1 DEF IsInjective
        <5>5. \A i, j \in 1..(Len(k1) + 1) : k2[i] = k2[j] => i = j
          <6>0. Len(k1) \in Nat
            BY <3>4
          <6>1. \A i \in 1..(Len(k1) + 1) : i \in 1..Len(k1) \/ i = Len(k1) + 1
            BY <6>0
          <6> QED BY <4>2, <5>3, <5>4, <6>1
        <5> QED BY <4>2, <5>5 DEF IsInjective
      <4>5. Good(n)
        BY <3>1, <3>3, <3>6, <4>2, <4>3, <4>4 DEF k1, k2
      <4> QED BY <2>1, <4>5
    <3> QED BY <3>5, <3>6
  <2> QED BY <2>2, <2>3
<1>7. Good(Len(list))
  <2>1. Len(list) \in D
    BY <1>0
  <2> HIDE DEF Good, D
  <2> QED BY <1>6, <2>1
<1>8. \A r : r \in Range(list) <=> \E j \in 1..Len(list) : list[j] = r
  BY DEF Range
<1> QED BY <1>1, <1>7, <1>8

(* A page has rows of its query, each once.                                  *)
LEMMA PageIs ==
  ASSUME ListAssumption, NEW q \in Queries, NEW after
  PROVE  /\ Page(q, after) \in Seq(Nat)
         /\ Range(Page(q, after)) \subseteq Range(Matches[q])
         /\ IsInjective(Page(q, after))
<1> DEFINE all == Matches[q]
           later == Keep(all, {r \in Range(all) : r > after})
           n == IF Len(later) < PageSize THEN Len(later) ELSE PageSize
<1>1. all \in Seq(Nat) /\ IsInjective(all)
  <2>1. all \in Seq(Nat \ {0}) /\ \A i, j \in DOMAIN all : i < j => all[i] < all[j]
    BY DEF ListAssumption
  <2>2. all \in Seq(Nat)
    BY <2>1
  <2>3. ASSUME NEW i \in DOMAIN all, NEW j \in DOMAIN all, all[i] = all[j]
        PROVE  i = j
    <3>1. i \in Nat /\ j \in Nat /\ all[i] \in Nat
      BY <2>2
    <3>2. ~(all[i] < all[j]) /\ ~(all[j] < all[i])
      BY <2>3, <3>1
    <3> QED BY <2>1, <3>1, <3>2
  <2> QED BY <2>2, <2>3 DEF IsInjective
<1> HIDE DEF all
<1>2. later \in Seq(Nat) /\ Range(later) \subseteq Range(all) /\ IsInjective(later)
  BY <1>1, KeepIs
<1> HIDE DEF later
<1>3. n \in Nat /\ n <= Len(later)
  BY <1>2 DEF ListAssumption
<1> HIDE DEF n
<1>4. /\ SubSeq(later, 1, n) \in Seq(Nat) /\ Len(SubSeq(later, 1, n)) = n
      /\ \A i \in 1..n : SubSeq(later, 1, n)[i] = later[i] /\ i \in DOMAIN later
  BY <1>2, <1>3
<1>5. Range(SubSeq(later, 1, n)) \subseteq Range(later)
  BY <1>4 DEF Range
<1>6. IsInjective(SubSeq(later, 1, n))
  BY <1>2, <1>4 DEF IsInjective
<1> QED BY <1>2, <1>4, <1>5, <1>6 DEF Page, all, later, n

(* What is left of a list after its first n.                                 *)
LEMMA TailOf ==
  ASSUME NEW s \in Seq(Nat), NEW n \in Nat, n <= Len(s)
  PROVE  LET t == SubSeq(s, n + 1, Len(s)) IN
         /\ t \in Seq(Nat)
         /\ \A r \in Range(t) : \E i \in 1..Len(s) : i > n /\ s[i] = r
         /\ IsInjective(s) => IsInjective(t)
<1> DEFINE t == SubSeq(s, n + 1, Len(s))
<1>0. Len(s) \in Nat /\ DOMAIN s = 1..Len(s)
  OBVIOUS
<1>1. t \in Seq(Nat) /\ Len(t) = Len(s) - n /\ DOMAIN t = 1..(Len(s) - n)
  <2>1. n + 1 \in Nat /\ \A i \in (n + 1)..Len(s) : s[i] \in Nat
    BY <1>0
  <2>2. t \in Seq(Nat)
    BY <1>0, <2>1
  <2>3. Len(t) = IF n + 1 <= Len(s) THEN Len(s) - (n + 1) + 1 ELSE 0
    BY <1>0, <2>1, SubSeqProperties
  <2> HIDE DEF t
  <2>4. Len(t) = Len(s) - n
    <3>1. \A a, b \in Nat : b <= a => (IF b + 1 <= a THEN a - (b + 1) + 1 ELSE 0) = a - b
      OBVIOUS
    <3> QED BY <1>0, <2>3, <3>1
  <2> QED BY <2>2, <2>4
<1>2. \A i \in 1..(Len(s) - n) : t[i] = s[n + i]
  <2> SUFFICES ASSUME NEW i \in 1..(Len(s) - n) PROVE t[i] = s[n + i]
    OBVIOUS
  <2>1. i \in 1..(Len(s) - (n + 1) + 1) /\ (n + 1) + i - 1 = n + i /\ n + 1 \in Nat
    BY <1>0
  <2> QED BY <1>0, <2>1
<1>3. \A i \in 1..(Len(s) - n) : n + i \in 1..Len(s) /\ n + i > n
  BY <1>0
<1> HIDE DEF t
<1>4. \A r \in Range(t) : \E i \in 1..Len(s) : i > n /\ s[i] = r
  BY <1>1, <1>2, <1>3 DEF Range
<1>5. ASSUME IsInjective(s), NEW i \in DOMAIN t, NEW j \in DOMAIN t, t[i] = t[j]
      PROVE  i = j
  <2>1. n + i = n + j
    BY <1>0, <1>1, <1>2, <1>3, <1>5 DEF IsInjective
  <2>2. i \in Nat /\ j \in Nat
    BY <1>0, <1>1
  <2> QED BY <2>1, <2>2
<1> QED BY <1>1, <1>4, <1>5 DEF IsInjective, t

(* Two lists with nothing in common, one after the other.                    *)
LEMMA Joined ==
  ASSUME NEW s \in Seq(Nat), NEW t \in Seq(Nat)
  PROVE  /\ s \o t \in Seq(Nat) /\ Len(s \o t) = Len(s) + Len(t)
         /\ \A i \in 1..Len(s) : (s \o t)[i] = s[i]
         /\ \A i \in (Len(s) + 1)..(Len(s) + Len(t)) : (s \o t)[i] = t[i - Len(s)] /\ i - Len(s) \in 1..Len(t)
         /\ \A i \in 1..Len(s \o t) : i > Len(s) => (s \o t)[i] \in Range(t)
         /\ Range(s \o t) = Range(s) \cup Range(t)
         /\ IsInjective(s) /\ IsInjective(t) /\ Range(s) \cap Range(t) = {} => IsInjective(s \o t)
<1> DEFINE u == s \o t
<1>0. Len(s) \in Nat /\ Len(t) \in Nat /\ DOMAIN s = 1..Len(s) /\ DOMAIN t = 1..Len(t)
  OBVIOUS
<1>1. u \in Seq(Nat) /\ Len(u) = Len(s) + Len(t) /\ DOMAIN u = 1..(Len(s) + Len(t))
  OBVIOUS
<1>2. \A i \in 1..Len(s) : u[i] = s[i]
  OBVIOUS
<1>3. \A i \in (Len(s) + 1)..(Len(s) + Len(t)) : u[i] = t[i - Len(s)] /\ i - Len(s) \in 1..Len(t)
  BY <1>0
<1> HIDE DEF u
<1>4. \A i \in DOMAIN u : i \in 1..Len(s) \/ i \in (Len(s) + 1)..(Len(s) + Len(t))
  BY <1>0, <1>1
<1>b. \A i \in 1..Len(u) : i > Len(s) => u[i] \in Range(t)
  <2> SUFFICES ASSUME NEW i \in 1..Len(u), i > Len(s) PROVE u[i] \in Range(t)
    OBVIOUS
  <2>1. i \in (Len(s) + 1)..(Len(s) + Len(t))
    BY <1>0, <1>1
  <2> QED BY <1>0, <1>3, <2>1 DEF Range
<1>5. Range(u) = Range(s) \cup Range(t)
  <2>1. \A r \in Range(u) : r \in Range(s) \cup Range(t)
    BY <1>0, <1>2, <1>3, <1>4 DEF Range
  <2>2. \A r \in Range(s) : r \in Range(u)
    <3>1. \A i \in DOMAIN s : i \in DOMAIN u
      BY <1>0, <1>1
    <3> QED BY <1>0, <1>2, <3>1 DEF Range
  <2>3. \A r \in Range(t) : r \in Range(u)
    <3>1. \A j \in DOMAIN t : j + Len(s) \in DOMAIN u /\ u[j + Len(s)] = t[j]
      <4> SUFFICES ASSUME NEW j \in DOMAIN t PROVE j + Len(s) \in DOMAIN u /\ u[j + Len(s)] = t[j]
        OBVIOUS
      <4>1. j + Len(s) \in (Len(s) + 1)..(Len(s) + Len(t)) /\ (j + Len(s)) - Len(s) = j
            /\ j + Len(s) \in DOMAIN u
        BY <1>0, <1>1
      <4> QED BY <1>3, <4>1
    <3> QED BY <3>1 DEF Range
  <2> QED BY <2>1, <2>2, <2>3
<1>6. ASSUME IsInjective(s), IsInjective(t), Range(s) \cap Range(t) = {}, NEW i \in DOMAIN u,
             NEW j \in DOMAIN u, u[i] = u[j]
      PROVE  i = j
  <2>1. CASE i \in 1..Len(s) /\ j \in 1..Len(s)
    BY <1>0, <1>2, <1>6, <2>1 DEF IsInjective
  <2>2. CASE i \in (Len(s) + 1)..(Len(s) + Len(t)) /\ j \in (Len(s) + 1)..(Len(s) + Len(t))
    <3>1. t[i - Len(s)] = t[j - Len(s)] /\ i - Len(s) \in DOMAIN t /\ j - Len(s) \in DOMAIN t
      BY <1>0, <1>3, <1>6, <2>2
    <3>2. i - Len(s) = j - Len(s)
      BY <1>6, <3>1 DEF IsInjective
    <3> QED BY <1>0, <2>2, <3>2
  <2>3. CASE i \in 1..Len(s) /\ j \in (Len(s) + 1)..(Len(s) + Len(t))
    <3>1. u[i] \in Range(s) /\ u[j] \in Range(t)
      BY <1>0, <1>2, <1>3, <2>3 DEF Range
    <3> QED BY <1>6, <3>1
  <2>4. CASE j \in 1..Len(s) /\ i \in (Len(s) + 1)..(Len(s) + Len(t))
    <3>1. u[j] \in Range(s) /\ u[i] \in Range(t)
      BY <1>0, <1>2, <1>3, <2>4 DEF Range
    <3> QED BY <1>6, <3>1
  <2> QED BY <1>4, <2>1, <2>2, <2>3, <2>4
<1>7. IsInjective(s) /\ IsInjective(t) /\ Range(s) \cap Range(t) = {} => IsInjective(u)
  BY <1>6 DEF IsInjective
<1> QED BY <1>1, <1>2, <1>3, <1>b, <1>5, <1>7 DEF u

(* The newest first page is on its way.                                      *)
FirstPending == \E f \in firsts : f.live = liveGeneration

(* The types, and that nothing on its way is newer than what it counts.      *)
ListTypes ==
  /\ query \in Queries /\ queryGeneration \in Nat
  /\ rows \in Seq(Nat) /\ loadedMore \in BOOLEAN
  /\ firstPageCount \in Nat /\ firstPageCount <= Len(rows)
  /\ liveGeneration \in Nat
  /\ \A f \in firsts : f.live \in Nat /\ f.live <= liveGeneration /\ f.query \in Queries
  /\ \A m \in mores : m.generation \in Nat /\ m.generation <= queryGeneration /\ m.query \in Queries
  /\ due \in BOOLEAN /\ failed \in BOOLEAN

(* What is asked for now is asked for the present query, unless the          *)
(* delayed refresh of a changed one waits.                                   *)
Asking ==
  /\ \A m \in mores : m.generation = queryGeneration => m.query = query
  /\ ~due => \A f \in firsts : f.live = liveGeneration => f.query = query

(* Each row is shown once; the rows behind the first page are of the         *)
(* query, and so are all when the first page has come.                       *)
Showing ==
  /\ IsInjective(rows)
  /\ \A i \in 1..Len(rows) : i > firstPageCount => rows[i] \in Range(Matches[query])
  /\ ~due /\ ~failed /\ ~FirstPending => Range(rows) \subseteq Range(Matches[query])

(* The inductive invariant.                                                  *)
ListInv == ListTypes /\ Asking /\ Showing

(* A first page replaces the one before it and keeps what was appended.      *)
LEMMA FirstShown ==
  ASSUME ListAssumption, ListInv, NEW f \in firsts, FirstArrives(f)
  PROVE  ListInv'
<1>0. /\ firsts' = firsts \ {f}
      /\ query' = query /\ queryGeneration' = queryGeneration /\ loadedMore' = loadedMore
      /\ liveGeneration' = liveGeneration /\ mores' = mores /\ due' = due
  BY DEF FirstArrives
<1>1. ListTypes /\ Asking /\ Showing /\ f.query \in Queries
  BY DEF ListInv, ListTypes
<1>2. Asking'
  BY <1>0, <1>1 DEF Asking
<1>3. CASE ~Newest(f)
  <2>1. rows' = rows /\ firstPageCount' = firstPageCount /\ cursor' = cursor /\ failed' = failed
    BY <1>3 DEF FirstArrives
  <2>2. FirstPending' <=> FirstPending
    BY <1>0, <1>3 DEF FirstPending, Newest
  <2>3. ListTypes'
    BY <1>0, <1>1, <2>1 DEF ListTypes
  <2>4. Showing'
    BY <1>0, <1>1, <2>1, <2>2 DEF Showing
  <2> QED BY <1>2, <2>3, <2>4 DEF ListInv
<1>4. CASE Newest(f)
  <2> DEFINE page == Page(f.query, 0)
             tail == KeptTail
             rest == Keep(tail, Range(tail) \ Range(page))
  <2>1. rows' = page \o rest /\ firstPageCount' = Len(page) /\ failed' = FALSE
    BY <1>4 DEF FirstArrives
  <2>2. page \in Seq(Nat) /\ Range(page) \subseteq Range(Matches[f.query]) /\ IsInjective(page)
    BY <1>1, PageIs
  <2>3. /\ tail \in Seq(Nat) /\ IsInjective(tail)
        /\ Range(tail) \subseteq Range(Matches[query])
    <3>1. CASE ~loadedMore
      <4>1. tail = <<>>
        BY <3>1 DEF KeptTail
      <4> QED BY <4>1 DEF Range, IsInjective
    <3>2. CASE loadedMore
      <4>0. /\ rows \in Seq(Nat) /\ firstPageCount \in Nat /\ firstPageCount <= Len(rows)
            /\ tail = SubSeq(rows, firstPageCount + 1, Len(rows))
        BY <1>1, <3>2 DEF ListTypes, KeptTail
      <4> HIDE DEF tail
      <4>1. /\ tail \in Seq(Nat)
            /\ \A r \in Range(tail) : \E i \in 1..Len(rows) : i > firstPageCount /\ rows[i] = r
            /\ IsInjective(rows) => IsInjective(tail)
        BY <4>0, TailOf
      <4> QED BY <1>1, <4>1 DEF Showing
    <3> QED BY <1>1, <3>1, <3>2 DEF ListTypes
  <2> HIDE DEF page, tail
  <2>4. /\ rest \in Seq(Nat) /\ IsInjective(rest) /\ Range(rest) = Range(tail) \cap (Range(tail) \ Range(page))
    BY <2>3, KeepIs
  <2> HIDE DEF rest
  <2>5. Range(rest) \subseteq Range(Matches[query]) /\ Range(page) \cap Range(rest) = {}
    BY <2>3, <2>4
  <2>6. /\ rows' \in Seq(Nat) /\ Len(rows') = Len(page) + Len(rest)
        /\ \A i \in 1..Len(rows') : i > Len(page) => rows'[i] \in Range(rest)
        /\ Range(rows') = Range(page) \cup Range(rest)
        /\ IsInjective(rows')
    BY <2>1, <2>2, <2>4, <2>5, Joined
  <2>7. ListTypes'
    <3>1. Len(page) \in Nat /\ Len(page) <= Len(rows')
      BY <2>2, <2>4, <2>6
    <3> QED BY <1>0, <1>1, <2>1, <2>6, <3>1 DEF ListTypes
  <2>8. \A i \in 1..Len(rows') : i > firstPageCount' => rows'[i] \in Range(Matches[query])
    <3> SUFFICES ASSUME NEW i \in 1..Len(rows'), i > Len(page) PROVE rows'[i] \in Range(Matches[query])
      BY <2>1
    <3> QED BY <2>5, <2>6
  <2>9. ~due => Range(rows') \subseteq Range(Matches[query])
    <3>1. ~due => f.query = query
      BY <1>1, <1>4 DEF Asking, Newest
    <3> QED BY <2>2, <2>5, <2>6, <3>1
  <2>10. Showing'
    BY <1>0, <2>6, <2>8, <2>9 DEF Showing
  <2> QED BY <1>2, <2>7, <2>10 DEF ListInv
<1> QED BY <1>3, <1>4

(* A further page of the present query is appended.                          *)
LEMMA MoreShown ==
  ASSUME ListAssumption, ListInv, NEW m \in mores, MoreArrives(m)
  PROVE  ListInv'
<1>0. /\ mores' = mores \ {m}
      /\ query' = query /\ queryGeneration' = queryGeneration /\ firstPageCount' = firstPageCount
      /\ liveGeneration' = liveGeneration /\ firsts' = firsts /\ due' = due /\ failed' = failed
  BY DEF MoreArrives
<1>1. /\ ListTypes /\ Asking /\ Showing
      /\ m.query \in Queries /\ rows \in Seq(Nat) /\ (FirstPending' <=> FirstPending)
  BY <1>0 DEF ListInv, ListTypes, FirstPending
<1>2. Asking'
  BY <1>0, <1>1 DEF Asking
<1>3. CASE ~SameQuery(m)
  <2>1. rows' = rows /\ loadedMore' = loadedMore
    BY <1>3 DEF MoreArrives
  <2>2. ListTypes' /\ Showing'
    BY <1>0, <1>1, <2>1 DEF ListTypes, Showing
  <2> QED BY <1>2, <2>2 DEF ListInv
<1>4. CASE SameQuery(m)
  <2> DEFINE page == Page(m.query, m.after)
             new == Keep(page, Range(page) \ Range(rows))
  <2>1. rows' = rows \o new /\ loadedMore' = TRUE
    BY <1>4 DEF MoreArrives
  <2>2. page \in Seq(Nat) /\ Range(page) \subseteq Range(Matches[query]) /\ IsInjective(page)
    <3>1. m.query = query
      BY <1>1, <1>4 DEF Asking, SameQuery
    <3> QED BY <1>1, <3>1, PageIs
  <2> HIDE DEF page
  <2>3. new \in Seq(Nat) /\ IsInjective(new) /\ Range(new) = Range(page) \cap (Range(page) \ Range(rows))
    BY <2>2, KeepIs
  <2> HIDE DEF new
  <2>4. Range(new) \subseteq Range(Matches[query]) /\ Range(rows) \cap Range(new) = {}
    BY <2>2, <2>3
  <2>5. /\ rows' \in Seq(Nat) /\ Len(rows') = Len(rows) + Len(new)
        /\ \A i \in 1..Len(rows) : rows'[i] = rows[i]
        /\ \A i \in 1..Len(rows') : i > Len(rows) => rows'[i] \in Range(new)
        /\ Range(rows') = Range(rows) \cup Range(new)
        /\ IsInjective(rows')
    BY <1>1, <2>1, <2>3, <2>4, Joined DEF Showing
  <2>6. ListTypes'
    <3>1. firstPageCount <= Len(rows')
      BY <1>1, <2>3, <2>5 DEF ListTypes
    <3> QED BY <1>0, <1>1, <2>1, <2>5, <3>1 DEF ListTypes
  <2>7. \A i \in 1..Len(rows') : i > firstPageCount => rows'[i] \in Range(Matches[query])
    <3> SUFFICES ASSUME NEW i \in 1..Len(rows'), i > firstPageCount PROVE rows'[i] \in Range(Matches[query])
      OBVIOUS
    <3>1. i \in 1..Len(rows) \/ i > Len(rows)
      BY <1>1, <2>3, <2>5
    <3> QED BY <1>1, <2>4, <2>5, <3>1 DEF Showing
  <2>8. Showing'
    BY <1>0, <1>1, <2>4, <2>5, <2>7 DEF Showing
  <2> QED BY <1>2, <2>6, <2>8 DEF ListInv
<1> QED BY <1>3, <1>4

(* Requests, failures and a changed query.                                   *)
LEMMA ListAsks ==
  ASSUME ListAssumption, ListInv,
         \/ RefreshList /\ due' \in {due, FALSE}
         \/ \E q \in Queries : ChangeQuery(q)
         \/ LoadMore
         \/ \E f \in firsts : FirstFails(f)
         \/ \E m \in mores : MoreFails(m)
         \/ UNCHANGED listVars
  PROVE  ListInv'
<1>0. ListTypes /\ Asking /\ Showing
  BY DEF ListInv
<1>1. CASE RefreshList /\ due' \in {due, FALSE}
  <2>0. /\ liveGeneration \in Nat /\ liveGeneration' = liveGeneration + 1 /\ query' = query
        /\ \A f \in firsts' : f \in firsts \/ f = [live |-> liveGeneration', query |-> query]
    BY <1>0, <1>1 DEF RefreshList, ListTypes
  <2>a. \A f \in firsts' : f.live \in Nat /\ f.live <= liveGeneration' /\ f.query \in Queries
    BY <1>0, <2>0 DEF ListTypes
  <2>b. /\ UNCHANGED <<query, queryGeneration, rows, loadedMore, firstPageCount, mores, failed>>
    BY <1>1 DEF RefreshList
  <2>c. liveGeneration' \in Nat
    BY <2>0
  <2>d. due' \in BOOLEAN
    BY <1>0, <1>1 DEF ListTypes
  <2>1. ListTypes'
    BY <1>0, <2>a, <2>b, <2>c, <2>d DEF ListTypes
  <2>2. FirstPending'
    <3>1. [live |-> liveGeneration', query |-> query] \in firsts'
      BY <1>1 DEF RefreshList
    <3> QED BY <3>1 DEF FirstPending
  <2>3. \A f \in firsts' : f.live = liveGeneration' => f.query = query'
    BY <1>0, <1>1 DEF RefreshList, ListTypes
  <2>4. Asking' /\ Showing'
    BY <1>0, <1>1, <2>2, <2>3 DEF RefreshList, Asking, Showing
  <2> QED BY <2>1, <2>4 DEF ListInv
<1>2. ASSUME NEW q \in Queries, ChangeQuery(q)
      PROVE  ListInv'
  <2>0. queryGeneration \in Nat /\ queryGeneration' = queryGeneration + 1 /\ mores' = mores
    BY <1>0, <1>2 DEF ChangeQuery, ListTypes
  <2>a. \A m \in mores : m.generation \in Nat /\ m.generation < queryGeneration' /\ m.query \in Queries
    BY <1>0, <2>0 DEF ListTypes
  <2>b. rows' \in Seq(Nat) /\ Len(rows') = 0 /\ firstPageCount' = 0
    BY <1>2 DEF ChangeQuery
  <2>c. /\ query' = q /\ loadedMore' = FALSE /\ due' = TRUE
        /\ UNCHANGED <<liveGeneration, firsts, mores, failed>>
        /\ queryGeneration' \in Nat /\ firstPageCount' \in Nat /\ firstPageCount' <= Len(rows')
    BY <1>2, <2>0, <2>b DEF ChangeQuery
  <2>d. \A m \in mores : m.generation <= queryGeneration'
    BY <2>0, <2>a
  <2>1. ListTypes'
    BY <1>0, <2>a, <2>b, <2>c, <2>d DEF ListTypes
  <2>2. Asking'
    BY <1>0, <1>2, <2>0, <2>a DEF ChangeQuery, Asking, ListTypes
  <2>3. Showing'
    BY <1>2 DEF ChangeQuery, Showing, IsInjective
  <2> QED BY <2>1, <2>2, <2>3 DEF ListInv
<1>3. CASE LoadMore
  <2>1. ListTypes' /\ Asking'
    BY <1>0, <1>3 DEF LoadMore, ListTypes, Asking
  <2>2. Showing'
    BY <1>0, <1>3 DEF LoadMore, Showing, FirstPending
  <2> QED BY <2>1, <2>2 DEF ListInv
<1>4. ASSUME NEW f \in firsts, FirstFails(f)
      PROVE  ListInv'
  <2>1. ListTypes' /\ Asking'
    BY <1>0, <1>4 DEF FirstFails, ListTypes, Asking
  <2>2. ~failed' => (FirstPending' <=> FirstPending) /\ ~failed
    BY <1>4 DEF FirstFails, FirstPending, Newest
  <2>3. Showing'
    BY <1>0, <1>4, <2>2 DEF FirstFails, Showing
  <2> QED BY <2>1, <2>3 DEF ListInv
<1>5. ASSUME NEW m \in mores, MoreFails(m)
      PROVE  ListInv'
  <2>1. ListTypes' /\ Asking'
    BY <1>0, <1>5 DEF MoreFails, ListTypes, Asking
  <2>2. Showing'
    BY <1>0, <1>5 DEF MoreFails, Showing, FirstPending
  <2> QED BY <2>1, <2>2 DEF ListInv
<1>6. CASE UNCHANGED listVars
  BY <1>0, <1>6 DEF listVars, ListInv, ListTypes, Asking, Showing, FirstPending
<1> QED BY <1>1, <1>2, <1>3, <1>4, <1>5, <1>6

(* The rows shown are each shown once and, once the list has settled, rows   *)
(* of the present query: the inductive invariant of the paged lists.         *)
THEOREM ListInvariant ==
  ASSUME ListAssumption
  PROVE  ListSpec => []ListInv
<1>1. ASSUME ListInit PROVE ListInv
  <2>1. rows \in Seq(Nat) /\ Len(rows) = 0 /\ IsInjective(rows)
    BY <1>1 DEF ListInit, IsInjective
  <2>a. /\ query \in Queries /\ queryGeneration \in Nat /\ liveGeneration \in Nat
        /\ firstPageCount \in Nat /\ firstPageCount <= Len(rows)
        /\ mores = {}
    BY <1>1, <2>1 DEF ListInit
  <2>c. loadedMore \in BOOLEAN /\ due \in BOOLEAN /\ failed \in BOOLEAN
    BY <1>1 DEF ListInit
  <2>b. \A f \in firsts : f.live \in Nat /\ f.live <= liveGeneration /\ f.query = query
    BY <1>1 DEF ListInit
  <2>2. ListTypes /\ Asking
    BY <2>1, <2>a, <2>b, <2>c DEF ListTypes, Asking
  <2>3. Showing
    BY <1>1, <2>1 DEF ListInit, Showing, FirstPending
  <2> QED BY <2>2, <2>3 DEF ListInv
<1>2. ListInv /\ [ListNext]_listVars => ListInv'
  BY FirstShown, MoreShown, ListAsks DEF ListNext, Poll, DelayEnds
<1> QED BY <1>1, <1>2, PTL DEF ListSpec

(* Once an Issue or customer list (IssuesPanel.tsx, CustomersPanel.tsx)      *)
(* has settled, it shows rows of what the owner searches for, each once,     *)
(* whichever pages arrive late.                                              *)
THEOREM ListShowsQuery ==
  ASSUME ListAssumption
  PROVE  ListSpec => []ListIsOfQuery
<1>1. ListInv => ListIsOfQuery
  BY DEF ListInv, Showing, ListIsOfQuery, Settled, FirstPending
<1> QED BY <1>1, ListInvariant, PTL

-----------------------------------------------------------------------------
(* OwnerConsole: the panels together.                                        *)

(* Every panel of the console shows what the owner chose last, and what it   *)
(* reveals beside its own Issue, payout or request, in whichever order the   *)
(* server's answers arrive.                                                  *)
THEOREM ConsoleIsOfChoice ==
  ASSUME ConsoleAssumption
  PROVE  ConsoleSpec => []ConsoleShowsChosen
<1>1. ListAssumption /\ PanelAssumption /\ SupportAssumption
  BY DEF ConsoleAssumption
<1>2. StudioSpec => []StudioShowsSelected
  BY StudioIsOfSelection
<1>3. ListSpec => []ListIsOfQuery
  BY <1>1, ListShowsQuery
<1>4. PanelSpec => []RevealedIsSelected
  BY <1>1, DestinationIsOfPayout
<1>5. SupportSpec => []RevealedIsChosen
  BY <1>1, SupportShowsChosen
<1>6. StudioShowsSelected /\ ListIsOfQuery /\ RevealedIsSelected /\ RevealedIsChosen => ConsoleShowsChosen
  BY DEF ConsoleShowsChosen
<1> QED BY <1>2, <1>3, <1>4, <1>5, <1>6, PTL DEF ConsoleSpec
=============================================================================
