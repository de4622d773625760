----------------------------- MODULE GuardProofs -----------------------------
(***************************************************************************)
(* Theorems about what the program lets through: about ContactCodes, for   *)
(* any finite number of tabs, any orders and emails, any number of guesses *)
(* a code allows and any losses; about RateWindow, for any lengths and     *)
(* limits of the windows; and about PngImage, for any headers, scanlines,  *)
(* number of chunks and limit of bytes.                                    *)
(*                                                                         *)
(* A guess that was judged wrong lowers the guesses left only if no other  *)
(* guess that read the same number was faster.  Late counts the guesses on *)
(* their way that will not lower it any more; each time the number falls,  *)
(* at most the tabs' other guesses become late, so wrong guesses and late  *)
(* ones together stay within the tabs for every guess that is gone.        *)
(***************************************************************************)
EXTENDS ContactCodes, RateWindow, PngImage, FiniteSetTheorems, SequenceTheorems, WellFoundedInduction, TLAPS

(* What a request that comes to statement s with q relies on: rows that are  *)
(* there, a number of guesses no older than the row's, and of a right code   *)
(* that was refused, what voided it.                                         *)
Fits(s, q) ==
  /\ s \in {"reserve", "create", "copy"} => q.order \in Orders /\ q.email \in ContactEmails
  /\ s = "copy" => q.source \in Orders
  /\ s \in {"send", "miss", "verify"} => q.challenge \in 1..Len(challenges)
  /\ s = "verify" => q.order \in Orders
  /\ s = "miss" => challenges[q.challenge].left - 1 <= q.remaining
  /\ s = "idle" /\ q.right => q.challenge \in 1..Len(challenges)
  /\ s = "idle" /\ q.right /\ q.kind = "contact" => Void(q.challenge) \/ q.order \in paid

RequestsOK ==
  /\ codeStep \in [Devices -> ContactSteps]
  /\ codeReq \in [Devices -> CodeRequest]
  /\ \A t \in Devices : Fits(codeStep[t], codeReq[t])

RowsOK ==
  /\ challenges \in Seq(Challenge) /\ Len(challenges) <= MaxChallenges
  /\ contact \in [Orders -> ContactEmails \cup {None}]
  /\ paid \subseteq {o \in Orders : contact[o] # None}
  /\ proofs \subseteq Orders \X ContactEmails \X Orders
  /\ counts \in [Subjects -> Nat]
  /\ heldCode \in [Devices -> 0..Len(challenges)]
  /\ codeLosses \in 0..MaxCodeLosses

TypeInv == RowsOK /\ RequestsOK

(* A code that is still open has not been accepted.                          *)
UseOK(x) == x.uses <= 1 /\ (x.consumed \/ x.uses = 0)
UseInv == \A c \in 1..Len(challenges) : UseOK(challenges[c])

(* The wrong guesses on their way to code c, and those of them that read a   *)
(* number of guesses another one has lowered since.                          *)
Pending(c) == {t \in Devices : codeStep[t] = "miss" /\ codeReq[t].challenge = c}
Late(c) == {t \in Pending(c) : challenges[c].left <= codeReq[t].remaining}

(* The wrong guesses that may have been judged, or be late, by the time a    *)
(* code has left guesses left.                                               *)
Allowed(left) == (OtpAttempts - left) * Cardinality(Devices)
Below(left) == IF left > 0 THEN left - 1 ELSE 0

(* Once a code is consumed no guess lowers the number any more.              *)
GuessOK(c) ==
  IF challenges[c].consumed
    THEN challenges[c].misses + Cardinality(Pending(c)) <= Allowed(Below(challenges[c].left))
    ELSE challenges[c].misses + Cardinality(Late(c)) <= Allowed(challenges[c].left)
GuessInv == \A c \in 1..Len(challenges) : GuessOK(c)

IInv == TypeInv /\ UseInv /\ GuessInv

(* Rows stay, a code once void stays so, a paid order stays paid.            *)
Ages ==
  /\ Len(challenges) <= Len(challenges')
  /\ \A c \in 1..Len(challenges) :
       /\ challenges[c].consumed => challenges'[c].consumed
       /\ challenges'[c].live => challenges[c].live
       /\ challenges'[c].left <= challenges[c].left
  /\ paid \subseteq paid'

(* A statement moves its own tab to s with q.                                *)
Moves(t, s, q) == codeStep' = [codeStep EXCEPT ![t] = s] /\ codeReq' = [codeReq EXCEPT ![t] = q]
-----------------------------------------------------------------------------
(* The wrong guesses allowed: none at first, for each guess gone the tabs'.  *)
LEMMA AllowedType ==
  ASSUME ContactAssumption, NEW l \in 0..OtpAttempts
  PROVE  /\ Cardinality(Devices) \in Nat
         /\ Allowed(l) \in Nat
         /\ l > 0 => Allowed(l - 1) = Allowed(l) + Cardinality(Devices)
         /\ Allowed(l) <= OtpAttempts * Cardinality(Devices)
         /\ Allowed(OtpAttempts) = 0
<1>1. PICK n \in Nat : n = Cardinality(Devices)
  BY FS_CardinalityType DEF ContactAssumption
<1>2. PICK a \in Nat : a = OtpAttempts
  BY DEF ContactAssumption
<1>3. PICK g \in Nat : g = a - l
  BY <1>2
<1>4. g * n \in Nat /\ l * n \in Nat
  BY <1>1, <1>3
<1>5. a * n = g * n + l * n
  <2>1. a = g + l
    BY <1>2, <1>3
  <2> QED BY <2>1, <1>1, <1>3
<1>6. (g + 1) * n = g * n + n
  BY <1>1, <1>3
<1>7. l > 0 => a - (l - 1) = g + 1
  BY <1>2, <1>3
<1>8. (a - a) * n = 0
  BY <1>1, <1>2
<1> QED BY <1>1, <1>2, <1>3, <1>4, <1>5, <1>6, <1>7, <1>8 DEF Allowed

(* A row of the table.                                                       *)
LEMMA RowType ==
  ASSUME RowsOK, NEW c \in 1..Len(challenges)
  PROVE  /\ challenges[c] \in Challenge
         /\ challenges[c].left \in 0..OtpAttempts /\ challenges[c].misses \in Nat
         /\ challenges[c].uses \in Nat
<1>1. challenges[c] \in Challenge
  BY ElementOfSeq DEF RowsOK
<1> QED BY <1>1 DEF Challenge

(* The late guesses are some of the pending ones, and of those there are no  *)
(* more than tabs.                                                           *)
LEMMA PendingType ==
  ASSUME ContactAssumption, TypeInv, NEW c \in 1..Len(challenges)
  PROVE  /\ IsFiniteSet(Pending(c)) /\ IsFiniteSet(Late(c))
         /\ Cardinality(Pending(c)) \in Nat /\ Cardinality(Late(c)) \in Nat
         /\ Cardinality(Pending(c)) <= Cardinality(Devices)
         /\ Cardinality(Late(c)) <= Cardinality(Pending(c))
         /\ challenges[c].left = 0 => Late(c) = Pending(c)
<1>1. Pending(c) \in SUBSET Devices /\ Late(c) \in SUBSET Pending(c)
  BY DEF Pending, Late
<1>2. IsFiniteSet(Pending(c)) /\ Cardinality(Pending(c)) <= Cardinality(Devices)
  BY <1>1, FS_Subset DEF ContactAssumption
<1>3. IsFiniteSet(Late(c)) /\ Cardinality(Late(c)) <= Cardinality(Pending(c))
  BY <1>1, <1>2, FS_Subset
<1>4. Cardinality(Pending(c)) \in Nat /\ Cardinality(Late(c)) \in Nat
  BY <1>2, <1>3, FS_CardinalityType
<1>5. ASSUME challenges[c].left = 0, NEW t \in Pending(c) PROVE t \in Late(c)
  <2>1. codeReq[t].remaining \in 0..OtpAttempts
    BY DEF Pending, TypeInv, RequestsOK, CodeRequest
  <2> QED BY <1>5, <2>1 DEF Late, ContactAssumption
<1> QED BY <1>1, <1>2, <1>3, <1>4, <1>5

(* What a request relies on is not taken back while the rows age.            *)
LEMMA AgesKeepFits ==
  ASSUME RowsOK, RowsOK', Ages, NEW u \in Devices, Fits(codeStep[u], codeReq[u]),
         codeReq[u] \in CodeRequest, codeStep'[u] = codeStep[u], codeReq'[u] = codeReq[u]
  PROVE  Fits(codeStep[u], codeReq[u])'
<1>1. PICK q \in CodeRequest : q = codeReq[u]
  OBVIOUS
<1>2. codeReq'[u] = q /\ Len(challenges) \in Nat /\ Len(challenges') \in Nat
  BY <1>1, LenProperties DEF RowsOK
<1>3. q.challenge \in 1..Len(challenges) => q.challenge \in 1..Len(challenges')
  BY <1>2 DEF Ages
<1>4. ASSUME q.challenge \in 1..Len(challenges)
      PROVE  /\ challenges'[q.challenge].left <= challenges[q.challenge].left
             /\ challenges[q.challenge].left \in Nat /\ challenges'[q.challenge].left \in Nat
             /\ Void(q.challenge) => Void(q.challenge)'
  <2>1. challenges[q.challenge].left \in 0..OtpAttempts
    BY <1>4, RowType
  <2>2. challenges'[q.challenge] \in Challenge
    BY <1>3, <1>4, ElementOfSeq DEF RowsOK
  <2>3. challenges'[q.challenge].left \in 0..OtpAttempts
    BY <2>2 DEF Challenge
  <2> QED BY <1>4, <2>1, <2>3 DEF Ages, Void
<1>5. q.remaining \in Nat
  BY <1>1 DEF CodeRequest
<1> QED BY <1>1, <1>2, <1>3, <1>4, <1>5 DEF Fits, Ages

(* Requests stay in order when one moves on to what fits it.                 *)
LEMMA MoveType ==
  ASSUME RequestsOK, RowsOK, RowsOK', Ages, NEW t \in Devices, NEW s \in ContactSteps, NEW q \in CodeRequest,
         Moves(t, s, q), Fits(s, q)'
  PROVE  RequestsOK'
<1>1. codeStep' \in [Devices -> ContactSteps] /\ codeReq' \in [Devices -> CodeRequest]
  BY DEF RequestsOK, Moves
<1>2. ASSUME NEW u \in Devices PROVE Fits(codeStep[u], codeReq[u])'
  <2>1. CASE u = t
    <3>1. codeStep'[u] = s /\ codeReq'[u] = q
      BY <2>1 DEF RequestsOK, Moves
    <3> QED BY <3>1 DEF Fits, Void
  <2>2. CASE u # t
    <3>1. codeStep'[u] = codeStep[u] /\ codeReq'[u] = codeReq[u]
      BY <2>2 DEF RequestsOK, Moves
    <3>2. Fits(codeStep[u], codeReq[u]) /\ codeReq[u] \in CodeRequest
      BY DEF RequestsOK
    <3> QED BY <3>1, <3>2, AgesKeepFits
  <2> QED BY <2>1, <2>2
<1> QED BY <1>1, <1>2 DEF RequestsOK

(* Nothing of the requests changes.                                          *)
LEMMA StillType ==
  ASSUME RequestsOK, RowsOK, RowsOK', Ages, UNCHANGED <<codeStep, codeReq>>
  PROVE  RequestsOK'
<1>1. ASSUME NEW u \in Devices PROVE Fits(codeStep[u], codeReq[u])'
  <2>1. Fits(codeStep[u], codeReq[u]) /\ codeReq[u] \in CodeRequest
    BY DEF RequestsOK
  <2> QED BY <2>1, AgesKeepFits
<1> QED BY <1>1 DEF RequestsOK
-----------------------------------------------------------------------------
(* The statements that judge no wrong guess: at most they consume a code and *)
(* let it be accepted, and a tab that starts a wrong guess has read the      *)
(* number of guesses that is left.                                           *)
Steady ==
  \A c \in 1..Len(challenges) :
    /\ challenges'[c].left = challenges[c].left
    /\ challenges'[c].misses = challenges[c].misses
TakesCodes ==
  \A c \in 1..Len(challenges) :
    \/ challenges'[c].uses = challenges[c].uses
    \/ ~challenges[c].consumed /\ challenges'[c].consumed /\ challenges'[c].uses = challenges[c].uses + 1
Unused(x) == x.uses = 0 /\ x.misses = 0 /\ x.left = OtpAttempts /\ ~x.consumed
FreshRows ==
  \A c \in 1..Len(challenges') : c \notin 1..Len(challenges) => Unused(challenges'[c])
Guesses ==
  \A t \in Devices : codeStep'[t] = "miss" =>
    \/ codeStep[t] = "miss" /\ codeReq'[t] = codeReq[t]
    \/ LET c == codeReq'[t].challenge IN
       /\ c \in 1..Len(challenges) /\ ~challenges'[c].consumed
       /\ codeReq'[t].remaining < challenges[c].left

(* They keep every code used at most once.                                   *)
LEMMA UseKept ==
  ASSUME RowsOK, RowsOK', Ages, UseInv, TakesCodes, FreshRows
  PROVE  UseInv'
<1> SUFFICES ASSUME NEW c \in 1..Len(challenges') PROVE UseOK(challenges'[c])
  BY DEF UseInv
<1>1. CASE c \in 1..Len(challenges)
  <2>1. UseOK(challenges[c]) /\ challenges[c].uses \in Nat
    BY <1>1, RowType DEF UseInv
  <2> QED BY <1>1, <2>1 DEF TakesCodes, Ages, UseOK
<1>2. CASE c \notin 1..Len(challenges)
  BY <1>2 DEF FreshRows, Unused, UseOK
<1> QED BY <1>1, <1>2

(* After a step as before it.                                                *)
LEMMA PendingTypeNext ==
  ASSUME ContactAssumption, TypeInv', NEW c \in 1..Len(challenges')
  PROVE  /\ Cardinality(Pending(c)') \in Nat /\ Cardinality(Late(c)') \in Nat
<1>1. Pending(c)' \in SUBSET Devices /\ Late(c)' \in SUBSET Pending(c)'
  BY DEF Pending, Late
<1>2. IsFiniteSet(Pending(c)') /\ IsFiniteSet(Late(c)')
  BY <1>1, FS_Subset DEF ContactAssumption
<1> QED BY <1>2, FS_CardinalityType

(* And the count of wrong guesses within what is allowed.                    *)
LEMMA GuessKept ==
  ASSUME ContactAssumption, TypeInv, TypeInv', Ages, GuessInv, Steady, FreshRows, Guesses
  PROVE  GuessInv'
<1> SUFFICES ASSUME NEW c \in 1..Len(challenges') PROVE GuessOK(c)'
  BY DEF GuessInv
<1>0. Cardinality(Pending(c)') \in Nat /\ Cardinality(Late(c)') \in Nat
  BY PendingTypeNext
<1>1. CASE c \notin 1..Len(challenges)
  <2>1. Late(c)' = {}
    <3>1. ASSUME NEW t \in Devices, codeStep'[t] = "miss", codeReq'[t].challenge = c PROVE FALSE
      <4>1. codeStep[t] = "miss" /\ codeReq[t].challenge = c
        BY <1>1, <3>1 DEF Guesses
      <4> QED BY <1>1, <4>1 DEF TypeInv, RequestsOK, Fits
    <3> QED BY <3>1 DEF Late, Pending
  <2>2. Cardinality(Late(c)') = 0
    BY <2>1, FS_EmptySet
  <2>3. Unused(challenges'[c])
    BY <1>1 DEF FreshRows
  <2>4. Allowed(OtpAttempts) = 0
    BY AllowedType DEF ContactAssumption
  <2> QED BY <2>2, <2>3, <2>4 DEF GuessOK, Unused, Allowed
<1>2. CASE c \in 1..Len(challenges)
  <2>1. GuessOK(c)
    BY <1>2 DEF GuessInv
  <2>2. /\ challenges'[c].left = challenges[c].left
        /\ challenges'[c].misses = challenges[c].misses
        /\ challenges[c].left \in 0..OtpAttempts /\ challenges[c].misses \in Nat
    BY <1>2, RowType DEF Steady, TypeInv
  <2>3. Late(c)' \subseteq Late(c)
    BY <1>2, <2>2 DEF Late, Pending, Guesses, TypeInv, RequestsOK, CodeRequest
  <2>4. challenges'[c].consumed => Pending(c)' \subseteq Pending(c)
    BY <1>2 DEF Pending, Guesses
  <2>5. /\ IsFiniteSet(Pending(c)) /\ IsFiniteSet(Late(c))
        /\ Cardinality(Pending(c)) \in Nat /\ Cardinality(Late(c)) \in Nat
        /\ Cardinality(Pending(c)) <= Cardinality(Devices) /\ Cardinality(Devices) \in Nat
        /\ challenges[c].left = 0 => Late(c) = Pending(c)
    BY <1>2, <2>2, PendingType, AllowedType
  <2>6. Cardinality(Late(c)') <= Cardinality(Late(c))
    BY <2>3, <2>5, FS_Subset
  <2>7. challenges'[c].consumed => Cardinality(Pending(c)') <= Cardinality(Pending(c))
    BY <2>4, <2>5, FS_Subset
  <2>8. CASE ~challenges'[c].consumed
    <3>1. ~challenges[c].consumed
      BY <1>2, <2>8 DEF Ages
    <3> QED BY <2>1, <2>2, <2>5, <2>6, <2>8, <3>1, <1>0, AllowedType DEF GuessOK, Allowed
  <2>9. CASE challenges'[c].consumed
    <3>1. challenges[c].misses + Cardinality(Pending(c)) <= Allowed(Below(challenges[c].left))
      <4>1. CASE challenges[c].consumed
        BY <2>1, <4>1 DEF GuessOK
      <4>2. CASE ~challenges[c].consumed /\ challenges[c].left = 0
        BY <2>1, <2>5, <4>2 DEF GuessOK, Below
      <4>3. CASE ~challenges[c].consumed /\ challenges[c].left > 0
        <5>1. /\ Allowed(challenges[c].left - 1) = Allowed(challenges[c].left) + Cardinality(Devices)
              /\ Allowed(challenges[c].left) \in Nat
          BY <2>2, <4>3, AllowedType
        <5>2. challenges[c].misses + Cardinality(Late(c)) <= Allowed(challenges[c].left)
          BY <2>1, <4>3 DEF GuessOK
        <5> QED BY <2>2, <2>5, <4>3, <5>1, <5>2 DEF Below
      <4> QED BY <2>2, <4>1, <4>2, <4>3 DEF ContactAssumption
    <3>2. Below(challenges[c].left) \in 0..OtpAttempts
      BY <2>2 DEF Below, ContactAssumption
    <3>3. Allowed(Below(challenges[c].left)) \in Nat
      BY <3>2, AllowedType
    <3>4. challenges[c].misses + Cardinality(Pending(c)') <= Allowed(Below(challenges[c].left))
      BY <2>2, <2>5, <2>7, <2>9, <3>1, <3>3, <1>0
    <3> QED BY <2>2, <2>9, <3>4 DEF GuessOK, Allowed, Below
  <2> QED BY <2>8, <2>9
<1> QED BY <1>1, <1>2
-----------------------------------------------------------------------------
(* What is left to show of a step that judges no wrong guess.                *)
Changes == RowsOK' /\ Ages /\ Steady /\ TakesCodes /\ FreshRows

(* It moves one tab to what fits it, and to no guess.                        *)
LEMMA MoveInv ==
  ASSUME ContactAssumption, IInv, Changes, NEW t \in Devices, NEW s \in ContactSteps, NEW q \in CodeRequest,
         Moves(t, s, q), Fits(s, q)', s # "miss"
  PROVE  IInv'
<1>1. RequestsOK'
  BY MoveType DEF IInv, TypeInv, Changes
<1>2. Guesses
  BY DEF Guesses, Moves, IInv, TypeInv, RequestsOK
<1> QED BY <1>1, <1>2, UseKept, GuessKept DEF IInv, TypeInv, Changes

(* It ends the request.                                                      *)
LEMMA DoneInv ==
  ASSUME ContactAssumption, IInv, Changes, NEW t \in Devices, Done(t)
  PROVE  IInv'
<1>1. "idle" \in ContactSteps /\ NoCodeRequest \in CodeRequest
  BY DEF ContactSteps, NoCodeRequest, CodeRequest, ContactAssumption
<1>2. Fits("idle", NoCodeRequest)'
  BY DEF Fits, NoCodeRequest
<1> QED BY <1>1, <1>2, MoveInv DEF Done, Moves

(* It moves no tab.                                                          *)
LEMMA StillInv ==
  ASSUME ContactAssumption, IInv, Changes, UNCHANGED <<codeStep, codeReq>>
  PROVE  IInv'
<1>1. RequestsOK'
  BY StillType DEF IInv, TypeInv, Changes
<1>2. Guesses
  BY DEF Guesses
<1> QED BY <1>1, <1>2, UseKept, GuessKept DEF IInv, TypeInv, Changes

(* A step that leaves the table of codes alone.                              *)
LEMMA SameRows ==
  ASSUME RowsOK, UNCHANGED challenges, paid \subseteq paid',
         contact' \in [Orders -> ContactEmails \cup {None}],
         paid' \subseteq {o \in Orders : contact'[o] # None},
         proofs' \subseteq Orders \X ContactEmails \X Orders,
         counts' \in [Subjects -> Nat],
         heldCode' \in [Devices -> 0..Len(challenges)],
         codeLosses' \in 0..MaxCodeLosses
  PROVE  Changes
<1>1. RowsOK'
  BY DEF RowsOK
<1>2. ASSUME NEW c \in 1..Len(challenges)
      PROVE challenges[c].left <= challenges[c].left
  <2>1. challenges[c].left \in 0..OtpAttempts
    BY RowType
  <2> QED BY <2>1
<1>3. Len(challenges) \in Nat
  BY LenProperties DEF RowsOK
<1>4. Ages
  BY <1>2, <1>3 DEF Ages
<1> QED BY <1>1, <1>4 DEF Changes, Steady, TakesCodes, FreshRows

(* A step that writes one row.                                               *)
LEMMA SetRow ==
  ASSUME RowsOK, NEW c \in 1..Len(challenges), NEW x \in Challenge,
         challenges' = [challenges EXCEPT ![c] = x]
  PROVE  /\ challenges' \in Seq(Challenge)
         /\ Len(challenges') = Len(challenges)
         /\ \A d \in 1..Len(challenges) : challenges'[d] = IF d = c THEN x ELSE challenges[d]
BY ExceptSeq DEF RowsOK

(* When it only consumes, cools, expires or mails a code.                    *)
LEMMA SetRowChanges ==
  ASSUME RowsOK, NEW c \in 1..Len(challenges), NEW x \in Challenge,
         challenges' = [challenges EXCEPT ![c] = x],
         x.left = challenges[c].left, x.misses = challenges[c].misses,
         challenges[c].consumed => x.consumed, x.live => challenges[c].live,
         \/ x.uses = challenges[c].uses
         \/ ~challenges[c].consumed /\ x.consumed /\ x.uses = challenges[c].uses + 1,
         UNCHANGED <<paid, proofs, counts>>,
         contact' \in [Orders -> ContactEmails \cup {None}],
         \A o \in paid : contact'[o] # None,
         heldCode' \in [Devices -> 0..Len(challenges)],
         codeLosses' \in 0..MaxCodeLosses
  PROVE  Changes
<1>1. /\ challenges' \in Seq(Challenge)
      /\ Len(challenges') = Len(challenges) /\ Len(challenges) \in Nat
      /\ \A d \in 1..Len(challenges) : challenges'[d] = IF d = c THEN x ELSE challenges[d]
  BY SetRow, LenProperties DEF RowsOK
<1>2. RowsOK'
  BY <1>1 DEF RowsOK
<1>3. ASSUME NEW d \in 1..Len(challenges)
      PROVE challenges[d].left \in Nat
  <2>1. challenges[d].left \in 0..OtpAttempts
    BY RowType
  <2> QED BY <2>1
<1>4. Ages
  BY <1>1, <1>3 DEF Ages
<1>5. Steady /\ TakesCodes /\ FreshRows
  BY <1>1 DEF Steady, TakesCodes, FreshRows
<1> QED BY <1>2, <1>4, <1>5 DEF Changes

(* A decoy leaves a tab with no code or the one it had.                      *)
LEMMA DecoyType ==
  ASSUME RowsOK, NEW t \in Devices, NEW kind, Decoy(t, kind)
  PROVE  heldCode' \in [Devices -> 0..Len(challenges)]
<1>1. Len(challenges) \in Nat
  BY LenProperties DEF RowsOK
<1> QED BY <1>1 DEF Decoy, RowsOK
-----------------------------------------------------------------------------
(* Asking for a code writes nothing.                                         *)
LEMMA AskCodeInv ==
  ASSUME ContactAssumption, IInv, NEW t \in Devices, AskCode(t)
  PROVE  IInv'
<1> USE DEF rows, world
<1>0. RowsOK
  BY DEF IInv, TypeInv
<1>1. PICK o \in Orders, m \in ContactEmails, kind \in {"contact", "recovery"} :
        IF Cooling(o, m) THEN Done(t) /\ Decoy(t, kind) /\ UNCHANGED codeLosses
        ELSE /\ UNCHANGED heldCode
             /\ codeReq' = [codeReq EXCEPT ![t] =
                              [NoCodeRequest EXCEPT !.kind = kind, !.order = o, !.email = m]]
             /\ ContactGo(t, "reserve")
  BY DEF AskCode
<1>2. CASE Cooling(o, m)
  <2>1. Done(t) /\ Decoy(t, kind) /\ UNCHANGED <<challenges, contact, paid, proofs, counts, codeLosses>>
    BY <1>1, <1>2 DEF AskCode
  <2>2. Changes
    BY <1>0, <2>1, SameRows, DecoyType DEF RowsOK
  <2> QED BY <2>1, <2>2, DoneInv
<1>3. CASE ~Cooling(o, m)
  <2>1. PICK q : q = [NoCodeRequest EXCEPT !.kind = kind, !.order = o, !.email = m]
    OBVIOUS
  <2>2. q \in CodeRequest /\ q.order = o /\ q.email = m /\ "reserve" \in ContactSteps
    <3>1. q = [kind |-> kind, order |-> o, email |-> m, challenge |-> 0,
               source |-> None, right |-> FALSE, remaining |-> 0]
      BY <2>1 DEF NoCodeRequest
    <3>2. 0 \in 0..MaxChallenges /\ 0 \in 0..OtpAttempts
      BY DEF ContactAssumption
    <3> QED BY <3>1, <3>2 DEF CodeRequest, ContactSteps
  <2>3. Moves(t, "reserve", q) /\ UNCHANGED <<challenges, contact, paid, proofs, counts, heldCode,
                                              codeLosses>>
    BY <1>1, <1>3, <2>1 DEF AskCode, Moves, ContactGo
  <2>4. Changes
    BY <1>0, <2>3, SameRows DEF RowsOK
  <2>5. Fits("reserve", q)'
    BY <2>2 DEF Fits
  <2> QED BY <2>2, <2>3, <2>4, <2>5, MoveInv
<1> QED BY <1>2, <1>3

(* Nor does asking for an order one does not know.                           *)
LEMMA AskUnknownInv ==
  ASSUME ContactAssumption, IInv, NEW t \in Devices, AskUnknown(t)
  PROVE  IInv'
<1>0. RowsOK
  BY DEF IInv, TypeInv
<1>1. Done(t) /\ Decoy(t, "recovery") /\ UNCHANGED <<challenges, contact, paid, proofs, counts, codeLosses>>
  BY DEF AskUnknown, rows, world
<1>2. Changes
  BY <1>0, <1>1, SameRows, DecoyType DEF RowsOK
<1> QED BY <1>1, <1>2, DoneInv

(* The windows count the request, whether they have room or not.             *)
LEMMA ReserveInv ==
  ASSUME ContactAssumption, IInv, NEW t \in Devices, Reserve(t)
  PROVE  IInv'
<1>0. RowsOK /\ codeReq[t] \in CodeRequest /\ codeStep[t] = "reserve" /\ Fits(codeStep[t], codeReq[t])
  BY DEF IInv, TypeInv, RequestsOK, Reserve
<1>1. PICK q \in CodeRequest : q = codeReq[t]
  BY <1>0
<1>2. q.order \in Orders /\ q.email \in ContactEmails
  BY <1>0, <1>1 DEF Fits
<1>3. counts' \in [Subjects -> Nat]
  <2>1. PICK o, m : o = q.order /\ m = q.email /\ o \in Subjects /\ m \in Subjects
    BY <1>2 DEF Subjects
  <2>2. counts' = [counts EXCEPT ![m] = IF Room(m, "email") THEN @ + 1 ELSE @,
                                 ![o] = IF Room(o, "experience") THEN @ + 1 ELSE @]
    BY <1>1, <2>1 DEF Reserve
  <2>3. PICK f : f = [counts EXCEPT ![m] = IF Room(m, "email") THEN @ + 1 ELSE @]
    OBVIOUS
  <2>4. f \in [Subjects -> Nat]
    BY <1>0, <2>1, <2>3 DEF RowsOK
  <2>5. PICK n : n = IF Room(o, "experience") THEN counts[o] + 1 ELSE counts[o]
    OBVIOUS
  <2>6. counts' = [f EXCEPT ![o] = n]
    BY <2>2, <2>3, <2>5
  <2>7. n \in Nat
    BY <1>0, <2>1, <2>5 DEF RowsOK
  <2> QED BY <2>1, <2>4, <2>6, <2>7
<1>4. UNCHANGED <<challenges, contact, paid, proofs>>
  BY DEF Reserve, rows, world
<1>5. CASE Room(q.email, "email") /\ Room(q.order, "experience")
  <2>1. ContactGo(t, "create") /\ UNCHANGED <<codeReq, heldCode>>
    BY <1>1, <1>5 DEF Reserve
  <2>2. Changes
    BY <1>0, <1>3, <1>4, <2>1, SameRows DEF RowsOK, ContactGo
  <2>3. Moves(t, "create", q) /\ "create" \in ContactSteps
    BY <1>1, <2>1 DEF Moves, ContactGo, ContactSteps, IInv, TypeInv, RequestsOK
  <2>4. Fits("create", q)'
    BY <1>2 DEF Fits
  <2> QED BY <2>2, <2>3, <2>4, MoveInv
<1>6. CASE ~(Room(q.email, "email") /\ Room(q.order, "experience"))
  <2>1. Done(t) /\ Decoy(t, q.kind) /\ UNCHANGED codeLosses
    BY <1>1, <1>6 DEF Reserve
  <2>2. Changes
    BY <1>0, <1>3, <1>4, <2>1, SameRows, DecoyType DEF RowsOK
  <2> QED BY <2>1, <2>2, DoneInv
<1> QED BY <1>5, <1>6

(* A new code: a row of its own, and the pair's open codes consumed.         *)
LEMMA CreateInv ==
  ASSUME ContactAssumption, IInv, NEW t \in Devices, Create(t)
  PROVE  IInv'
<1>0. RowsOK /\ codeReq[t] \in CodeRequest /\ codeStep[t] = "create" /\ Fits(codeStep[t], codeReq[t])
  BY DEF IInv, TypeInv, RequestsOK, Create
<1>1. PICK p \in CodeRequest : p = codeReq[t]
  BY <1>0
<1>2. p.order \in Orders /\ p.email \in ContactEmails
  BY <1>0, <1>1 DEF Fits
<1>3. PICK n \in Nat : n = Len(challenges) /\ n < MaxChallenges
  BY <1>0, LenProperties DEF RowsOK, Create
<1>4. PICK x : x = NewChallenge(p.order, p.email)
  OBVIOUS
<1>5. x \in Challenge /\ Unused(x)
  BY <1>2, <1>4 DEF NewChallenge, Challenge, Unused, ContactAssumption
<1>6. PICK g : g = [c \in 1..n |-> IF c \in Open(p.order, p.email)
                                  THEN [challenges[c] EXCEPT !.consumed = TRUE]
                                  ELSE challenges[c]]
  OBVIOUS
<1>7. ASSUME NEW c \in 1..n
      PROVE  /\ g[c] \in Challenge
             /\ g[c].left = challenges[c].left /\ g[c].misses = challenges[c].misses
             /\ g[c].uses = challenges[c].uses /\ g[c].live = challenges[c].live
             /\ challenges[c].consumed => g[c].consumed
  <2>1. PICK y \in Challenge : y = challenges[c]
    BY <1>0, <1>3, RowType
  <2>2. PICK z : z = [y EXCEPT !.consumed = TRUE]
    OBVIOUS
  <2>3. z \in Challenge /\ z.left = y.left /\ z.misses = y.misses /\ z.uses = y.uses
        /\ z.live = y.live /\ z.consumed
    BY <2>2 DEF Challenge
  <2>4. g[c] = z \/ g[c] = y
    BY <1>6, <2>1, <2>2
  <2> QED BY <2>1, <2>3, <2>4
<1>8. g \in Seq(Challenge) /\ Len(g) = n
  <2>1. g \in [1..n -> Challenge]
    BY <1>6, <1>7
  <2>2. g \in Seq(Challenge)
    BY <2>1, SeqDef
  <2> QED BY <2>1, <2>2, LenProperties
<1>9. challenges' = Append(g, x)
  BY <1>1, <1>3, <1>4, <1>6 DEF Create
<1>10. /\ challenges' \in Seq(Challenge) /\ Len(challenges') = n + 1
       /\ \A c \in 1..n : challenges'[c] = g[c]
       /\ challenges'[n + 1] = x
  BY <1>5, <1>8, <1>9, AppendProperties
<1>11. /\ codeReq' = [codeReq EXCEPT ![t].challenge = n + 1]
       /\ codeStep' = [codeStep EXCEPT ![t] = "send"]
       /\ UNCHANGED <<contact, paid, proofs, counts, heldCode, codeLosses>>
  BY <1>3 DEF Create, ContactGo, world
<1>12. RowsOK'
  <2>1. 0..n \subseteq 0..(n + 1)
    BY <1>3
  <2> QED BY <1>0, <1>3, <1>10, <1>11, <2>1 DEF RowsOK, ContactAssumption
<1>13. Ages
  <2>1. ASSUME NEW c \in 1..n PROVE challenges[c].left \in Nat
    <3>1. challenges[c].left \in 0..OtpAttempts
      BY <1>0, <1>3, RowType
    <3> QED BY <3>1
  <2> QED BY <1>3, <1>7, <1>10, <1>11, <2>1 DEF Ages
<1>14. Steady /\ TakesCodes
  BY <1>3, <1>7, <1>10 DEF Steady, TakesCodes
<1>15. FreshRows
  BY <1>3, <1>5, <1>10 DEF FreshRows
<1>16. PICK q : q = [p EXCEPT !.challenge = n + 1]
  OBVIOUS
<1>17. q \in CodeRequest /\ q.challenge = n + 1 /\ "send" \in ContactSteps
  <2>1. n + 1 \in 0..MaxChallenges
    BY <1>3 DEF ContactAssumption
  <2> QED BY <1>16, <2>1 DEF CodeRequest, ContactSteps
<1>18. Moves(t, "send", q)
  BY <1>1, <1>11, <1>16 DEF Moves
<1>19. Fits("send", q)'
  BY <1>3, <1>10, <1>17 DEF Fits
<1> QED BY <1>12, <1>13, <1>14, <1>15, <1>17, <1>18, <1>19, MoveInv DEF Changes

(* The mail goes out or fails, the answer arrives or is lost.                *)
LEMMA SendInv ==
  ASSUME ContactAssumption, IInv, NEW t \in Devices, Send(t)
  PROVE  IInv'
<1>0. RowsOK /\ codeReq[t] \in CodeRequest /\ codeStep[t] = "send" /\ Fits(codeStep[t], codeReq[t])
  BY DEF IInv, TypeInv, RequestsOK, Send
<1>1. PICK c \in 1..Len(challenges) : c = codeReq[t].challenge
  BY <1>0 DEF Fits
<1>2. UNCHANGED <<contact, paid, proofs, counts>> /\ Done(t)
  BY DEF Send, world
<1>3. codeLosses' \in 0..MaxCodeLosses
  BY <1>0 DEF Send, RowsOK, ContactAssumption
<1>4. heldCode' \in [Devices -> 0..Len(challenges)]
  BY <1>0, <1>1, DecoyType DEF Send, RowsOK
<1>5. CASE UNCHANGED challenges
  BY <1>0, <1>2, <1>3, <1>4, <1>5, SameRows, DoneInv DEF RowsOK
<1>6. CASE Mail(c)
  <2>1. PICK y \in Challenge : y = challenges[c]
    BY <1>0, RowType
  <2>2. PICK x : x = [y EXCEPT !.mailed = TRUE]
    OBVIOUS
  <2>3. /\ x \in Challenge /\ x.left = y.left /\ x.misses = y.misses /\ x.uses = y.uses
        /\ x.live = y.live /\ x.consumed = y.consumed
    BY <2>2 DEF Challenge
  <2>4. challenges' = [challenges EXCEPT ![c] = x]
    BY <1>6, <2>1, <2>2 DEF Mail
  <2>5. Changes
    BY <1>0, <1>2, <1>3, <1>4, <2>1, <2>3, <2>4, SetRowChanges DEF RowsOK
  <2> QED BY <1>2, <2>5, DoneInv
<1> QED BY <1>1, <1>5, <1>6 DEF Send

(* The guess a tab types on code c.                                          *)
LEMMA TypedType ==
  ASSUME ContactAssumption, RowsOK, NEW c \in 1..Len(challenges), NEW kind \in {"contact", "recovery"},
         NEW right \in BOOLEAN, NEW q, q = Typed(c, kind, right)
  PROVE  /\ q \in CodeRequest /\ q.order \in Orders /\ q.challenge = c /\ q.right = right
         /\ challenges[c].left > 0 => q.remaining = challenges[c].left - 1
<1>1. PICK o \in Orders : o = challenges[c].order
  <2>1. challenges[c] \in Challenge
    BY RowType
  <2> QED BY <2>1 DEF Challenge
<1>2. PICK n : n = IF challenges[c].left = 0 THEN 0 ELSE challenges[c].left - 1
  OBVIOUS
<1>3. challenges[c].left \in 0..OtpAttempts
  BY RowType
<1>4. n \in 0..OtpAttempts /\ (challenges[c].left > 0 => n = challenges[c].left - 1)
  BY <1>2, <1>3 DEF ContactAssumption
<1>5. c \in 0..MaxChallenges
  BY LenProperties DEF RowsOK, ContactAssumption
<1>6. q = [kind |-> kind, order |-> o, email |-> None, challenge |-> c,
           source |-> None, right |-> right, remaining |-> n]
  BY <1>1, <1>2 DEF Typed, NoCodeRequest
<1>7. q \in CodeRequest
  BY <1>4, <1>5, <1>6 DEF CodeRequest
<1> QED BY <1>4, <1>6, <1>7

(* A right code that is refused is remembered with what voided it.           *)
LEMMA RefusedInv ==
  ASSUME ContactAssumption, IInv, Changes, NEW t \in Devices, NEW q \in CodeRequest, Refused(t, q),
         q.right => q.challenge \in 1..Len(challenges'),
         q.right /\ q.kind = "contact" => Void(q.challenge)' \/ q.order \in paid'
  PROVE  IInv'
<1>1. "idle" \in ContactSteps
  BY DEF ContactSteps
<1>2. CASE q.right
  <2>1. Moves(t, "idle", q)
    BY <1>2 DEF Refused, Moves
  <2>2. Fits("idle", q)'
    BY DEF Fits
  <2> QED BY <1>1, <2>1, <2>2, MoveInv
<1>3. CASE ~q.right
  <2>1. Done(t)
    BY <1>3 DEF Refused, Done
  <2> QED BY <2>1, DoneInv
<1> QED BY <1>2, <1>3

(* A guess reads the code: right, wrong, or of a code that is void.          *)
LEMMA TypeInvStep ==
  ASSUME ContactAssumption, IInv, NEW t \in Devices, Type(t)
  PROVE  IInv'
<1>0. RowsOK
  BY DEF IInv, TypeInv
<1>1. PICK c \in {heldCode[u] : u \in Devices} \ {0}, right \in BOOLEAN, kind \in {"contact", "recovery"} :
        IF Active(c)
          THEN /\ codeReq' = [codeReq EXCEPT ![t] = Typed(c, kind, right)]
               /\ ContactGo(t, IF right THEN "verify" ELSE "miss")
          ELSE Refused(t, Typed(c, kind, right)) /\ UNCHANGED codeLosses
  BY DEF Type
<1>2. c \in 1..Len(challenges) /\ Len(challenges) \in Nat
  <2>1. Len(challenges) \in Nat
    BY <1>0, LenProperties DEF RowsOK
  <2>2. PICK u \in Devices : c = heldCode[u] /\ c # 0
    OBVIOUS
  <2> QED BY <1>0, <2>1, <2>2 DEF RowsOK
<1>3. PICK q : q = Typed(c, kind, right)
  OBVIOUS
<1>4. /\ q \in CodeRequest /\ q.order \in Orders /\ q.challenge = c /\ q.right = right
      /\ challenges[c].left > 0 => q.remaining = challenges[c].left - 1
  BY <1>0, <1>2, <1>3, TypedType
<1>5. UNCHANGED <<challenges, contact, paid, proofs, counts, heldCode>>
  BY DEF Type, rows, world
<1>6. UNCHANGED codeLosses
  BY <1>1 DEF ContactGo
<1>7. Changes
  BY <1>0, <1>5, <1>6, SameRows DEF RowsOK
<1>8. challenges[c].left \in 0..OtpAttempts /\ OtpAttempts \in Nat
  BY <1>0, <1>2, RowType DEF ContactAssumption
<1>9. CASE Active(c) /\ right
  <2>1. Moves(t, "verify", q) /\ "verify" \in ContactSteps
    BY <1>1, <1>3, <1>9 DEF Moves, ContactGo, ContactSteps
  <2>2. Fits("verify", q)'
    BY <1>2, <1>4, <1>5 DEF Fits
  <2> QED BY <1>4, <1>7, <2>1, <2>2, MoveInv
<1>10. CASE Active(c) /\ ~right
  <2>1. Moves(t, "miss", q) /\ "miss" \in ContactSteps
    BY <1>1, <1>3, <1>10 DEF Moves, ContactGo, ContactSteps
  <2>2. q.remaining = challenges[c].left - 1 /\ ~challenges[c].consumed
    BY <1>4, <1>10 DEF Active
  <2>3. Fits("miss", q)'
    BY <1>2, <1>4, <1>5, <1>8, <2>2 DEF Fits
  <2>4. RequestsOK'
    BY <1>0, <1>4, <1>7, <2>1, <2>3, MoveType DEF IInv, TypeInv, Changes
  <2>5. Guesses
    <3>1. ASSUME NEW u \in Devices, u # t PROVE codeStep'[u] = codeStep[u] /\ codeReq'[u] = codeReq[u]
      BY <2>1, <3>1 DEF Moves, IInv, TypeInv, RequestsOK
    <3>2. codeReq'[t] = q
      BY <2>1 DEF Moves, IInv, TypeInv, RequestsOK
    <3>3. q.remaining < challenges[c].left /\ ~challenges'[c].consumed
      BY <1>5, <1>8, <2>2
    <3> QED BY <1>2, <1>4, <3>1, <3>2, <3>3 DEF Guesses
  <2> QED BY <1>7, <2>4, <2>5, UseKept, GuessKept DEF IInv, TypeInv, Changes
<1>11. CASE ~Active(c)
  <2>1. Refused(t, q)
    BY <1>1, <1>3, <1>11
  <2>2. Void(c)
    BY <1>8, <1>11 DEF Active, Void
  <2>3. Void(c)'
    BY <1>5, <2>2 DEF Void
  <2> QED BY <1>2, <1>4, <1>5, <1>7, <2>1, <2>3, RefusedInv
<1> QED BY <1>9, <1>10, <1>11

(* The code is consumed by one statement, or refused with what voids it.     *)
LEMMA VerifyInv ==
  ASSUME ContactAssumption, IInv, NEW t \in Devices, Verify(t)
  PROVE  IInv'
<1>0. RowsOK /\ codeReq[t] \in CodeRequest /\ codeStep[t] = "verify" /\ Fits(codeStep[t], codeReq[t])
  BY DEF IInv, TypeInv, RequestsOK, Verify
<1>1. PICK q \in CodeRequest : q = codeReq[t]
  BY <1>0
<1>2. PICK c \in 1..Len(challenges), o \in Orders : c = q.challenge /\ o = q.order
  BY <1>0, <1>1 DEF Fits
<1>3. UNCHANGED <<paid, proofs, counts, heldCode, codeLosses>>
  BY DEF Verify, world
<1>4. PICK y \in Challenge : y = challenges[c]
  BY <1>0, RowType
<1>5. CASE Consumable(c) /\ ~Locked(o)
  <2>1. /\ challenges' = [challenges EXCEPT ![c].consumed = TRUE, ![c].uses = @ + 1]
        /\ contact' = [contact EXCEPT ![o] = challenges[c].email]
        /\ Done(t)
    BY <1>1, <1>2, <1>5 DEF Verify
  <2>2. PICK x : x = [y EXCEPT !.consumed = TRUE, !.uses = @ + 1]
    OBVIOUS
  <2>3. /\ x \in Challenge /\ x.left = y.left /\ x.misses = y.misses /\ x.uses = y.uses + 1
        /\ x.live = y.live /\ x.consumed
    <3>1. PICK z : z = [y EXCEPT !.consumed = TRUE]
      OBVIOUS
    <3>2. PICK n \in Nat : n = y.uses + 1
      BY DEF Challenge
    <3>3. /\ z \in Challenge /\ z.left = y.left /\ z.misses = y.misses /\ z.uses = y.uses
          /\ z.live = y.live /\ z.consumed
      BY <3>1 DEF Challenge
    <3>4. x = [z EXCEPT !.uses = n]
      BY <2>2, <3>1, <3>2
    <3> QED BY <3>2, <3>3, <3>4 DEF Challenge
  <2>4. challenges' = [challenges EXCEPT ![c] = x]
    BY <1>4, <2>1, <2>2
  <2>5. ~y.consumed
    BY <1>4, <1>5 DEF Consumable
  <2>6. PICK m \in ContactEmails : m = challenges[c].email
    BY <1>4 DEF Challenge
  <2>7. /\ contact' \in [Orders -> ContactEmails \cup {None}]
        /\ \A p \in paid : contact'[p] # None
    BY <1>0, <2>1, <2>6 DEF RowsOK, ContactAssumption
  <2>8. Changes
    BY <1>0, <1>3, <1>4, <2>3, <2>4, <2>5, <2>7, SetRowChanges DEF RowsOK
  <2> QED BY <2>1, <2>8, DoneInv
<1>6. CASE ~(Consumable(c) /\ ~Locked(o))
  <2>1. Refused(t, q) /\ UNCHANGED <<challenges, contact>>
    BY <1>1, <1>2, <1>6 DEF Verify, rows
  <2>2. Changes
    BY <1>0, <1>3, <2>1, SameRows DEF RowsOK
  <2>3. Void(c) \/ o \in paid
    <3>1. challenges[c].left \in 0..OtpAttempts
      BY <1>0, RowType
    <3> QED BY <1>6, <3>1 DEF Consumable, ConsumableOnce, Void, Locked, ContactAssumption
  <2>4. Void(c)' \/ o \in paid'
    BY <1>3, <2>1, <2>3 DEF Void
  <2> QED BY <1>2, <2>1, <2>2, <2>4, RefusedInv
<1> QED BY <1>5, <1>6

(* Using the email of an earlier order reads the cookie, then copies.        *)
LEMMA AskReuseInv ==
  ASSUME ContactAssumption, IInv, NEW t \in Devices, AskReuse(t)
  PROVE  IInv'
<1>0. RowsOK
  BY DEF IInv, TypeInv
<1>1. PICK p \in proofs, o \in Orders, m \in ContactEmails :
        codeReq' = [codeReq EXCEPT ![t] =
                      [NoCodeRequest EXCEPT !.kind = "reuse", !.order = o, !.email = m, !.source = p[1]]]
  BY DEF AskReuse
<1>2. PICK s \in Orders : s = p[1]
  BY <1>0 DEF RowsOK
<1>3. PICK q : q = [NoCodeRequest EXCEPT !.kind = "reuse", !.order = o, !.email = m, !.source = s]
  OBVIOUS
<1>4. q = [kind |-> "reuse", order |-> o, email |-> m, challenge |-> 0,
           source |-> s, right |-> FALSE, remaining |-> 0]
  BY <1>3 DEF NoCodeRequest
<1>5. q \in CodeRequest /\ "copy" \in ContactSteps
  <2>1. 0 \in 0..MaxChallenges /\ 0 \in 0..OtpAttempts
    BY DEF ContactAssumption
  <2> QED BY <1>4, <2>1 DEF CodeRequest, ContactSteps
<1>6. Moves(t, "copy", q) /\ UNCHANGED <<challenges, contact, paid, proofs, counts, heldCode, codeLosses>>
  BY <1>1, <1>2, <1>3 DEF AskReuse, Moves, ContactGo, rows, world
<1>7. Changes
  BY <1>0, <1>6, SameRows DEF RowsOK
<1>8. Fits("copy", q)'
  BY <1>4 DEF Fits
<1> QED BY <1>5, <1>6, <1>7, <1>8, MoveInv

(* Copying touches no code.                                                  *)
LEMMA CopyInv ==
  ASSUME ContactAssumption, IInv, NEW t \in Devices, Copy(t)
  PROVE  IInv'
<1>0. RowsOK /\ codeReq[t] \in CodeRequest /\ Fits(codeStep[t], codeReq[t]) /\ codeStep[t] = "copy"
  BY DEF IInv, TypeInv, RequestsOK, Copy
<1>1. PICK o \in Orders, m \in ContactEmails : o = codeReq[t].order /\ m = codeReq[t].email
  BY <1>0 DEF Fits
<1>2. Done(t) /\ UNCHANGED <<challenges, paid, proofs, counts, heldCode, codeLosses>>
  BY DEF Copy, world
<1>3. /\ contact' \in [Orders -> ContactEmails \cup {None}]
      /\ \A p \in paid : contact'[p] # None
  BY <1>0, <1>1 DEF Copy, RowsOK, ContactAssumption
<1>4. Changes
  BY <1>0, <1>2, <1>3, SameRows DEF RowsOK
<1> QED BY <1>2, <1>4, DoneInv

(* A handler that dies has written nothing more.                             *)
LEMMA DieInv ==
  ASSUME ContactAssumption, IInv, NEW t \in Devices, ContactDies(t)
  PROVE  IInv'
<1>0. RowsOK
  BY DEF IInv, TypeInv
<1>1. Done(t) /\ UNCHANGED <<challenges, contact, paid, proofs, counts, heldCode>>
  BY DEF ContactDies, rows, world
<1>2. codeLosses' \in 0..MaxCodeLosses
  BY <1>0 DEF ContactDies, RowsOK, ContactAssumption
<1>3. Changes
  BY <1>0, <1>1, <1>2, SameRows DEF RowsOK
<1> QED BY <1>1, <1>3, DoneInv

(* Payments, repeat orders, the windows and the clock.                       *)
LEMMA OutsideInv ==
  ASSUME ContactAssumption, IInv, Pay \/ IssueProof \/ Cool \/ Expire \/ Lapse
  PROVE  IInv'
<1>0. RowsOK
  BY DEF IInv, TypeInv
<1>1. UNCHANGED <<codeStep, codeReq>>
  BY DEF Pay, IssueProof, Cool, Expire, Lapse, tabVars
<1>2. CASE Pay \/ IssueProof \/ Lapse
  <2>1. UNCHANGED <<challenges, contact, heldCode, codeLosses>>
    BY <1>2 DEF Pay, IssueProof, Lapse, rows, tabVars
  <2>2. /\ paid \subseteq paid' /\ paid' \subseteq {o \in Orders : contact[o] # None}
        /\ counts' \in [Subjects -> Nat]
    BY <1>0, <1>2 DEF Pay, IssueProof, Lapse, rows, world, tabVars, RowsOK
  <2>3. proofs' \subseteq Orders \X ContactEmails \X Orders
    <3>1. CASE UNCHANGED proofs
      BY <1>0, <3>1 DEF RowsOK
    <3>2. CASE IssueProof
      <4>1. PICK s \in paid, o \in Orders : proofs' = proofs \cup {<<s, contact[s], o>>}
        BY <3>2 DEF IssueProof
      <4>2. s \in Orders /\ contact[s] \in ContactEmails
        BY <1>0 DEF RowsOK
      <4> QED BY <1>0, <4>1, <4>2 DEF RowsOK
    <3> QED BY <1>2, <3>1, <3>2 DEF Pay, Lapse, world
  <2>4. Changes
    BY <1>0, <2>1, <2>2, <2>3, SameRows DEF RowsOK
  <2> QED BY <1>1, <2>4, StillInv
<1>3. CASE Cool \/ Expire
  <2>1. UNCHANGED <<contact, paid, proofs, counts, heldCode, codeLosses>>
    BY <1>3 DEF Cool, Expire, world, tabVars
  <2>2. PICK c \in 1..Len(challenges) :
          \/ challenges' = [challenges EXCEPT ![c].cooling = FALSE]
          \/ challenges' = [challenges EXCEPT ![c].live = FALSE]
    BY <1>3 DEF Cool, Expire
  <2>3. PICK y \in Challenge : y = challenges[c]
    BY <1>0, RowType
  <2>4. PICK x : /\ challenges' = [challenges EXCEPT ![c] = x]
                 /\ x = [y EXCEPT !.cooling = FALSE] \/ x = [y EXCEPT !.live = FALSE]
    BY <2>2, <2>3
  <2>5. /\ x \in Challenge /\ x.left = y.left /\ x.misses = y.misses /\ x.uses = y.uses
        /\ x.consumed = y.consumed /\ (x.live => y.live)
    <3>1. CASE x = [y EXCEPT !.cooling = FALSE]
      BY <3>1 DEF Challenge
    <3>2. CASE x = [y EXCEPT !.live = FALSE]
      BY <3>2 DEF Challenge
    <3> QED BY <2>4, <3>1, <3>2
  <2>6. Changes
    BY <1>0, <2>1, <2>3, <2>4, <2>5, SetRowChanges DEF RowsOK
  <2> QED BY <1>1, <2>6, StillInv
<1> QED BY <1>2, <1>3
-----------------------------------------------------------------------------
(* A wrong guess is judged: it is no longer on its way, and if it lowers the *)
(* number of guesses left, those that read the same number become late.      *)
LEMMA MissInv ==
  ASSUME ContactAssumption, IInv, NEW t \in Devices, Miss(t)
  PROVE  IInv'
<1>0. RowsOK /\ codeReq[t] \in CodeRequest /\ codeStep[t] = "miss" /\ Fits(codeStep[t], codeReq[t])
  BY DEF IInv, TypeInv, RequestsOK, Miss
<1>1. PICK q \in CodeRequest : q = codeReq[t]
  BY <1>0
<1>2. PICK c \in 1..Len(challenges) : c = q.challenge
  BY <1>0, <1>1 DEF Fits
<1>3. PICK y \in Challenge : y = challenges[c]
  BY <1>0, RowType
<1>4. UNCHANGED <<contact, paid, proofs, counts, heldCode, codeLosses>> /\ Done(t)
  BY DEF Miss, world
<1>5. PICK n : n = IF y.consumed THEN y.left ELSE LeastLeft(y.left, q.remaining)
  OBVIOUS
<1>6. /\ y.left \in 0..OtpAttempts /\ q.remaining \in 0..OtpAttempts /\ OtpAttempts \in Nat
      /\ y.misses \in Nat
      /\ y.left - 1 <= q.remaining
  BY <1>0, <1>1, <1>2, <1>3 DEF Challenge, CodeRequest, ContactAssumption, Fits
<1>7. /\ n \in 0..OtpAttempts /\ n <= y.left
      /\ y.consumed => n = y.left
      /\ ~y.consumed /\ q.remaining < y.left => n = y.left - 1
      /\ ~y.consumed /\ y.left <= q.remaining => n = y.left
  BY <1>5, <1>6 DEF LeastLeft
<1>8. PICK x : x = [y EXCEPT !.misses = y.misses + 1, !.left = n]
  OBVIOUS
<1>9. challenges' = [challenges EXCEPT ![c] = x]
  <2>1. challenges' = [challenges EXCEPT
          ![c].misses = @ + 1,
          ![c].left = IF challenges[c].consumed THEN @ ELSE AfterMiss(@, codeReq[t].remaining)]
    BY <1>1, <1>2 DEF Miss
  <2> QED BY <1>1, <1>3, <1>5, <1>8, <2>1 DEF AfterMiss
<1>10. /\ x \in Challenge /\ x.left = n /\ x.misses = y.misses + 1 /\ x.uses = y.uses
       /\ x.live = y.live /\ x.consumed = y.consumed
  <2>1. PICK z : z = [y EXCEPT !.misses = y.misses + 1]
    OBVIOUS
  <2>2. /\ z \in Challenge /\ z.misses = y.misses + 1 /\ z.uses = y.uses
        /\ z.live = y.live /\ z.consumed = y.consumed
    BY <1>6, <2>1 DEF Challenge
  <2>3. x = [z EXCEPT !.left = n]
    BY <1>8, <2>1
  <2> QED BY <1>7, <2>2, <2>3 DEF Challenge
<1>11. /\ challenges' \in Seq(Challenge)
       /\ Len(challenges') = Len(challenges) /\ Len(challenges) \in Nat
       /\ \A d \in 1..Len(challenges) : challenges'[d] = IF d = c THEN x ELSE challenges[d]
  BY <1>0, <1>9, <1>10, SetRow, LenProperties DEF RowsOK
<1>12. RowsOK'
  BY <1>0, <1>4, <1>11 DEF RowsOK
<1>13. Ages
  <2>1. ASSUME NEW d \in 1..Len(challenges) PROVE challenges[d].left \in Nat
    <3>1. challenges[d].left \in 0..OtpAttempts
      BY <1>0, RowType
    <3> QED BY <3>1
  <2> QED BY <1>3, <1>4, <1>7, <1>10, <1>11, <2>1 DEF Ages
<1>14. RequestsOK'
  <2>1. "idle" \in ContactSteps /\ NoCodeRequest \in CodeRequest
    BY DEF ContactSteps, NoCodeRequest, CodeRequest, ContactAssumption
  <2>2. Fits("idle", NoCodeRequest)'
    BY DEF Fits, NoCodeRequest
  <2>3. Moves(t, "idle", NoCodeRequest)
    BY <1>4 DEF Done, Moves
  <2> QED BY <1>0, <1>12, <1>13, <2>1, <2>2, <2>3, MoveType DEF IInv, TypeInv
<1>15. UseInv'
  BY <1>3, <1>10, <1>11 DEF IInv, UseInv, UseOK
<1>16. /\ codeStep'[t] = "idle"
       /\ \A u \in Devices : u # t => codeStep'[u] = codeStep[u] /\ codeReq'[u] = codeReq[u]
  BY <1>4 DEF Done, IInv, TypeInv, RequestsOK
<1>17. ASSUME NEW d \in 1..Len(challenges), d # c PROVE GuessOK(d)'
  <2>1. GuessOK(d) /\ challenges'[d] = challenges[d]
    BY <1>11, <1>17 DEF IInv, GuessInv
  <2>2. Pending(d)' = Pending(d)
    BY <1>0, <1>1, <1>2, <1>16, <1>17 DEF Pending
  <2>3. Late(d)' = Late(d)
    <3>1. \A u \in Pending(d) : codeReq'[u] = codeReq[u]
      BY <1>0, <1>1, <1>2, <1>16, <1>17 DEF Pending
    <3> QED BY <2>1, <2>2, <3>1 DEF Late
  <2> QED BY <2>1, <2>2, <2>3 DEF GuessOK, Allowed, Below
<1>18. GuessOK(c)'
  <2>1. t \in Pending(c) /\ Pending(c)' = Pending(c) \ {t} /\ challenges'[c] = x
    BY <1>0, <1>1, <1>2, <1>11, <1>16 DEF Pending
  <2>2. /\ IsFiniteSet(Pending(c)) /\ IsFiniteSet(Late(c))
        /\ Cardinality(Pending(c)) \in Nat /\ Cardinality(Late(c)) \in Nat
        /\ Cardinality(Pending(c)) <= Cardinality(Devices) /\ Cardinality(Devices) \in Nat
    BY <1>6, PendingType, AllowedType DEF IInv
  <2>3. /\ IsFiniteSet(Pending(c)')
        /\ Cardinality(Pending(c)') = Cardinality(Pending(c)) - 1
    BY <2>1, <2>2, FS_RemoveElement
  <2>4. GuessOK(c)
    BY DEF IInv, GuessInv
  <2>5. CASE y.consumed
    <3>1. /\ y.misses + Cardinality(Pending(c)) <= Allowed(Below(y.left))
          /\ x.left = y.left
      BY <1>3, <1>7, <1>10, <2>4, <2>5 DEF GuessOK
    <3>2. Below(y.left) \in 0..OtpAttempts
      BY <1>6 DEF Below
    <3>3. Allowed(Below(y.left)) \in Nat
      BY <3>2, AllowedType
    <3>4. x.misses + Cardinality(Pending(c)') <= Allowed(Below(x.left))
      BY <1>6, <1>10, <2>2, <2>3, <3>1, <3>3
    <3> QED BY <1>10, <2>1, <2>5, <3>4 DEF GuessOK, Allowed, Below
  <2>6. CASE ~y.consumed /\ q.remaining < y.left
    <3>1. /\ y.misses + Cardinality(Late(c)) <= Allowed(y.left)
          /\ x.left = y.left - 1 /\ y.left > 0
      BY <1>3, <1>6, <1>7, <1>10, <2>4, <2>6 DEF GuessOK
    <3>2. Allowed(y.left - 1) = Allowed(y.left) + Cardinality(Devices) /\ Allowed(y.left) \in Nat
      BY <1>6, <3>1, AllowedType
    <3>3. Late(c)' \in SUBSET Pending(c)'
      BY DEF Late
    <3>4. Cardinality(Late(c)') <= Cardinality(Pending(c)') /\ Cardinality(Late(c)') \in Nat
      BY <2>3, <3>3, FS_Subset, FS_CardinalityType
    <3>5. x.misses + Cardinality(Late(c)') <= Allowed(x.left)
      BY <1>6, <1>10, <2>2, <2>3, <3>1, <3>2, <3>4
    <3> QED BY <1>10, <2>1, <2>6, <3>5 DEF GuessOK, Allowed
  <2>7. CASE ~y.consumed /\ y.left <= q.remaining
    <3>1. /\ y.misses + Cardinality(Late(c)) <= Allowed(y.left)
          /\ x.left = y.left
      BY <1>3, <1>7, <1>10, <2>4, <2>7 DEF GuessOK
    <3>2. t \in Late(c)
      BY <1>1, <1>3, <2>1, <2>7 DEF Late
    <3>3. Late(c)' = Late(c) \ {t}
      <4>1. \A u \in Pending(c)' : codeReq'[u] = codeReq[u]
        BY <1>16, <2>1 DEF Pending
      <4> QED BY <1>3, <2>1, <3>1, <4>1 DEF Late
    <3>4. Cardinality(Late(c)') = Cardinality(Late(c)) - 1
      BY <2>2, <3>2, <3>3, FS_RemoveElement
    <3>5. Allowed(y.left) \in Nat
      BY <1>6, AllowedType
    <3>6. x.misses + Cardinality(Late(c)') <= Allowed(x.left)
      BY <1>6, <1>10, <2>2, <3>1, <3>4, <3>5
    <3> QED BY <1>10, <2>1, <2>7, <3>6 DEF GuessOK, Allowed
  <2> QED BY <1>6, <2>5, <2>6, <2>7
<1>19. GuessInv'
  BY <1>11, <1>17, <1>18 DEF GuessInv
<1> QED BY <1>12, <1>14, <1>15, <1>19 DEF IInv, TypeInv
-----------------------------------------------------------------------------
(* No step breaks the invariant.                                             *)
LEMMA NextInv ==
  ASSUME ContactAssumption, IInv, [ContactNext]_contactVars
  PROVE  IInv'
<1>1. ASSUME NEW t \in Devices, AskContact(t) PROVE IInv'
  BY <1>1, AskCodeInv, AskUnknownInv, TypeInvStep, AskReuseInv DEF AskContact
<1>2. ASSUME NEW t \in Devices, ServeContact(t) PROVE IInv'
  BY <1>2, ReserveInv, CreateInv, SendInv, MissInv, VerifyInv, CopyInv DEF ServeContact
<1>3. ASSUME NEW t \in Devices, ContactDies(t) PROVE IInv'
  BY <1>3, DieInv
<1>4. CASE Pay \/ IssueProof \/ Cool \/ Expire \/ Lapse
  BY <1>4, OutsideInv
<1>5. CASE UNCHANGED contactVars
  <2>1. UNCHANGED <<challenges, contact, paid, proofs, counts, heldCode, codeStep, codeReq, codeLosses>>
    BY <1>5 DEF contactVars, rows, world, tabVars
  <2>2. Changes
    BY <2>1, SameRows DEF IInv, TypeInv, RowsOK
  <2> QED BY <2>1, <2>2, StillInv
<1> QED BY <1>1, <1>2, <1>3, <1>4, <1>5 DEF ContactNext

(* The initial state satisfies it.                                           *)
LEMMA InitInv == ContactAssumption /\ ContactInit => IInv
<1> SUFFICES ASSUME ContactAssumption, ContactInit PROVE IInv
  OBVIOUS
<1>1. challenges \in Seq(Challenge) /\ Len(challenges) = 0
  BY EmptySeq DEF ContactInit
<1>2. RowsOK
  BY <1>1 DEF ContactInit, RowsOK, ContactAssumption
<1>3. RequestsOK
  <2>1. "idle" \in ContactSteps /\ NoCodeRequest \in CodeRequest
    BY DEF ContactSteps, NoCodeRequest, CodeRequest, ContactAssumption
  <2>2. Fits("idle", NoCodeRequest)
    BY DEF Fits, NoCodeRequest
  <2> QED BY <2>1, <2>2 DEF ContactInit, RequestsOK
<1> QED BY <1>1, <1>2, <1>3 DEF IInv, TypeInv, UseInv, GuessInv

(* The inductive invariant: a code accepted is consumed, judged and late     *)
(* wrong guesses stay within the tabs for every guess that is gone, and what *)
(* a request relies on holds until its statement (ContactService.ts,         *)
(* PostgresContactRepository.ts).                                            *)
THEOREM Invariant ==
  ASSUME ContactAssumption
  PROVE  ContactSpec => []IInv
<1>1. ContactInit => IInv
  BY InitInv
<1>2. IInv /\ [ContactNext]_contactVars => IInv'
  BY NextInv
<1> QED BY <1>1, <1>2, PTL DEF ContactSpec

(* Every variable keeps its type, and a tab holds a code of the table        *)
(* (otp_challenges, verified_contacts, otp_rate_limits).                     *)
THEOREM TypeCorrect ==
  ASSUME ContactAssumption
  PROVE  ContactSpec => []ContactTypeOK
<1>1. IInv => ContactTypeOK
  BY DEF IInv, TypeInv, RowsOK, RequestsOK, ContactTypeOK
<1> QED BY <1>1, Invariant, PTL

(* A code is accepted once, however many tabs type it at once, and a right   *)
(* code of an unpaid order is refused only when another code, its time or    *)
(* its guesses made it void (verifyContact's conditional UPDATE).            *)
LEMMA VerifiedOnce ==
  ASSUME ContactAssumption
  PROVE  ContactSpec => [](AcceptedOnce /\ RightCodeVerifies)
<1>1. IInv => AcceptedOnce
  BY DEF IInv, UseInv, UseOK, AcceptedOnce
<1>2. IInv => RightCodeVerifies
  BY DEF IInv, TypeInv, RequestsOK, Fits, RightCodeVerifies
<1> QED BY <1>1, <1>2, Invariant, PTL

(* Guesses that run at once read the same number of guesses left; still a    *)
(* code never judges more wrong ones than it allows for each tab             *)
(* (recordFailedAttempt's LEAST).                                            *)
THEOREM GuessesAreBounded ==
  ASSUME ContactAssumption
  PROVE  ContactSpec => []GuessesBounded
<1>1. ASSUME IInv, NEW c \in 1..Len(challenges)
      PROVE  challenges[c].misses <= OtpAttempts * Cardinality(Devices)
  <2>1. PICK l \in 0..OtpAttempts : challenges[c].misses <= Allowed(l)
    <3>1. /\ challenges[c].left \in 0..OtpAttempts /\ challenges[c].misses \in Nat
          /\ Below(challenges[c].left) \in 0..OtpAttempts
      BY <1>1, RowType DEF IInv, TypeInv, Below, ContactAssumption
    <3>2. Cardinality(Pending(c)) \in Nat /\ Cardinality(Late(c)) \in Nat
      BY <1>1, PendingType DEF IInv
    <3>3. Allowed(challenges[c].left) \in Nat /\ Allowed(Below(challenges[c].left)) \in Nat
      BY <3>1, AllowedType
    <3>4. GuessOK(c)
      BY <1>1 DEF IInv, GuessInv
    <3> QED BY <3>1, <3>2, <3>3, <3>4 DEF GuessOK
  <2>2. Allowed(l) <= OtpAttempts * Cardinality(Devices) /\ Allowed(l) \in Nat /\ challenges[c].misses \in Nat
    BY <1>1, AllowedType, RowType DEF IInv, TypeInv
  <2>3. PICK k : k = OtpAttempts * Cardinality(Devices)
    OBVIOUS
  <2>4. k \in Nat
    BY <2>3, AllowedType DEF ContactAssumption
  <2> QED BY <2>1, <2>2, <2>3, <2>4
<1>2. IInv => GuessesBounded
  BY <1>1 DEF GuessesBounded
<1> QED BY <1>2, Invariant, PTL

(* The email of a paid order never changes, and a proof replaces an email    *)
(* only when a code is verified, never when an earlier one is reused         *)
(* (copyVerifiedContact, the trigger of migration 0015).                     *)
THEOREM ProvenEmailStays ==
  ASSUME ContactAssumption
  PROVE  ContactSpec => [][ProvenStays]_contactVars
<1>1. ASSUME IInv, [ContactNext]_contactVars, NEW o \in Orders, contact[o] # None, contact'[o] # contact[o]
      PROVE  o \notin paid /\ \E t \in Devices : codeStep[t] = "verify" /\ codeStep'[t] # "verify"
  <2>1. ASSUME NEW t \in Devices, Verify(t)
        PROVE  o \notin paid /\ codeStep[t] = "verify" /\ codeStep'[t] # "verify"
    <3>1. codeStep[t] = "verify" /\ codeStep'[t] # "verify"
      BY <1>1, <2>1 DEF Verify, Done, Refused, IInv, TypeInv, RequestsOK
    <3>2. o \notin paid
      BY <1>1, <2>1 DEF Verify, Locked, rows, IInv, TypeInv, RowsOK
    <3> QED BY <3>1, <3>2
  <2>2. ASSUME NEW t \in Devices, Copy(t) PROVE FALSE
    BY <1>1, <2>2 DEF Copy, Copies, Replaces, IInv, TypeInv, RowsOK
  <2>3. ASSUME NEW t \in Devices,
               AskContact(t) \/ Reserve(t) \/ Create(t) \/ Send(t) \/ Miss(t) \/ ContactDies(t)
        PROVE  FALSE
    BY <1>1, <2>3 DEF AskContact, AskCode, AskUnknown, Type, AskReuse, Reserve, Create, Send, Miss,
       ContactDies, rows
  <2>4. CASE Pay \/ IssueProof \/ Cool \/ Expire \/ Lapse \/ UNCHANGED contactVars
    BY <1>1, <2>4 DEF Pay, IssueProof, Cool, Expire, Lapse, contactVars, rows
  <2> QED BY <1>1, <2>1, <2>2, <2>3, <2>4 DEF ContactNext, ServeContact
<1>2. IInv /\ [ContactNext]_contactVars => [ProvenStays]_contactVars
  BY <1>1 DEF ProvenStays
<1> QED BY <1>2, Invariant, PTL DEF ContactSpec

(* The two together: a code is accepted once, a right one is refused only    *)
(* when it is void, and a proven email gives way to another proof only       *)
(* (verifyContact, copyVerifiedContact).                                     *)
THEOREM UsedOnce ==
  ASSUME ContactAssumption
  PROVE  ContactSpec => CodeUsedOnce
BY VerifiedOnce, ProvenEmailStays, PTL DEF CodeUsedOnce

-----------------------------------------------------------------------------
(* Sums.  The provers do not do induction over data, but they find the least *)
(* counterexample: a set of naturals that is not empty has a least element.  *)

(* A set of naturals that is not empty has a least element.                  *)
LEMMA LeastExists ==
  ASSUME NEW T, T \subseteq Nat, T # {}
  PROVE  \E n \in T : \A m \in T : n <= m
<1> DEFINE R == OpToRel(<, Nat)
<1>1. IsWellFoundedOn(R, Nat)
  BY NatLessThanWellFounded
<1>2. \A m, n \in Nat : <<m, n>> \in R <=> m < n
  BY DEF OpToRel
<1> HIDE DEF R
<1>3. PICK n \in T : \A m \in T : ~(<<m, n>> \in R)
  BY <1>1, WFMin
<1>4. n \in Nat /\ \A m \in T : m \in Nat /\ ~(m < n)
  BY <1>2, <1>3
<1>5. \A m \in T : n <= m
  BY <1>4
<1> QED BY <1>3, <1>5

(* g is the sum of f over each part of S, taken element by element.          *)
Unfolds(g, f, S) ==
  \A s \in SUBSET S : g[s] = IF s = {} THEN 0 ELSE f[CHOOSE x \in s : TRUE] + g[s \ {CHOOSE x \in s : TRUE}]

(* A part of a finite set, and what is left of it without one element.       *)
LEMMA Parts ==
  ASSUME NEW S, IsFiniteSet(S)
  PROVE  /\ \A s \in SUBSET S : IsFiniteSet(s) /\ Cardinality(s) \in Nat /\ Cardinality(s) <= Cardinality(S)
         /\ \A s \in SUBSET S : s # {} =>
              LET c == CHOOSE x \in s : TRUE IN
              /\ c \in s /\ s \ {c} \in SUBSET S
              /\ Cardinality(s \ {c}) = Cardinality(s) - 1
<1>0. \A s \in SUBSET S : IsFiniteSet(s) /\ Cardinality(s) \in Nat /\ Cardinality(s) <= Cardinality(S)
  BY FS_Subset, FS_CardinalityType
<1>a. ASSUME NEW s \in SUBSET S, s # {}, NEW c \in s
      PROVE  /\ s \ {c} \in SUBSET S
             /\ Cardinality(s \ {c}) = Cardinality(s) - 1
  BY <1>0, FS_RemoveElement
<1>b. \A s \in SUBSET S : s # {} => (CHOOSE x \in s : TRUE) \in s
  OBVIOUS
<1> QED BY <1>0, <1>a, <1>b

(* There is such a g: the least size of parts for which there were none      *)
(* would have one, from the g of the size below.                             *)
LEMMA SumsAre ==
  ASSUME NEW S, IsFiniteSet(S), NEW f, \A x \in S : f[x] \in Nat
  PROVE  \E g \in [SUBSET S -> Nat] : Unfolds(g, f, S)
<1> DEFINE c(s) == CHOOSE x \in s : TRUE
           Upto(n, g) == \A s \in SUBSET S : Cardinality(s) <= n =>
                           g[s] = IF s = {} THEN 0 ELSE f[c(s)] + g[s \ {c(s)}]
           Bad == {n \in Nat : ~\E g \in [SUBSET S -> Nat] : Upto(n, g)}
<1>0. \A s \in SUBSET S : IsFiniteSet(s) /\ Cardinality(s) \in Nat /\ Cardinality(s) <= Cardinality(S)
  BY Parts
<1>a. \A s \in SUBSET S : s # {} =>
         /\ c(s) \in s /\ s \ {c(s)} \in SUBSET S
         /\ Cardinality(s \ {c(s)}) = Cardinality(s) - 1
  BY Parts
<1> HIDE DEF c
<1>1. Bad = {}
  <2> SUFFICES ASSUME Bad # {} PROVE FALSE
    OBVIOUS
  <2>1. PICK n \in Bad : \A m \in Bad : n <= m
    BY LeastExists
  <2>0. n \in Nat
    BY <2>1
  <2>2. CASE n = 0
    <3> DEFINE g == [s \in SUBSET S |-> 0]
    <3>1. \A s \in SUBSET S : Cardinality(s) <= 0 => s = {}
      BY <1>0, FS_EmptySet
    <3>2. Upto(n, g)
      BY <2>2, <3>1
    <3>3. g \in [SUBSET S -> Nat]
      OBVIOUS
    <3> QED BY <2>1, <3>2, <3>3
  <2>3. CASE n # 0
    <3>0. n - 1 \in Nat /\ ~(n <= n - 1)
      BY <2>0, <2>3
    <3>1. n - 1 \notin Bad
      <4> HIDE DEF Bad
      <4> QED BY <2>1, <3>0
    <3>2. PICK g \in [SUBSET S -> Nat] : Upto(n - 1, g)
      BY <3>0, <3>1
    <3> DEFINE h == [s \in SUBSET S |-> IF s = {} THEN 0 ELSE f[c(s)] + g[s \ {c(s)}]]
    <3>3. h \in [SUBSET S -> Nat]
      <4>1. \A s \in SUBSET S : s # {} => f[c(s)] \in Nat /\ g[s \ {c(s)}] \in Nat
        BY <1>a, <3>2
      <4> QED BY <4>1
    <3>4. \A s \in SUBSET S : Cardinality(s) <= n - 1 => h[s] = g[s]
      BY <3>2
    <3>5. Upto(n, h)
      <4> SUFFICES ASSUME NEW s \in SUBSET S, Cardinality(s) <= n, s # {}
                   PROVE  h[s] = f[c(s)] + h[s \ {c(s)}]
        OBVIOUS
      <4>0. s \ {c(s)} \in SUBSET S /\ Cardinality(s \ {c(s)}) <= n - 1
        BY <1>0, <1>a, <2>0
      <4>1. h[s \ {c(s)}] = g[s \ {c(s)}]
        BY <3>4, <4>0
      <4> QED BY <4>1
    <3> QED BY <2>1, <3>3, <3>5
  <2> QED BY <2>2, <2>3
<1>2. PICK g \in [SUBSET S -> Nat] : Upto(Cardinality(S), g)
  <2>1. Cardinality(S) \in Nat
    BY <1>0
  <2> QED BY <1>1, <2>1
<1>3. \A s \in SUBSET S : g[s] = IF s = {} THEN 0 ELSE f[c(s)] + g[s \ {c(s)}]
  BY <1>0, <1>2
<1> QED BY <1>3 DEF Unfolds, c

(* SumFunctionOnSet is that g: two that unfold differ on no smallest part.   *)
LEMMA SumUnfolds ==
  ASSUME NEW S, IsFiniteSet(S), NEW f, \A x \in S : f[x] \in Nat
  PROVE  \E g \in [SUBSET S -> Nat] : Unfolds(g, f, S) /\ SumFunctionOnSet(f, S) = g[S]
<1> DEFINE Body(g) == [s \in SUBSET S |->
                         IF s = {} THEN 0 ELSE LET x == CHOOSE x \in s : TRUE IN f[x] + g[s \ {x}]]
           i == CHOOSE g : g = Body(g)
<1>1. SumFunctionOnSet(f, S) = i[S]
  BY DEF SumFunctionOnSet, FoldFunctionOnSet, MapThenFoldSet
<1>2. PICK g \in [SUBSET S -> Nat] : Unfolds(g, f, S)
  BY SumsAre
<1>3. g = Body(g)
  BY <1>2 DEF Unfolds
<1>4. i = Body(i)
  BY <1>3
<1> HIDE DEF i
<1>5. Unfolds(i, f, S)
  BY <1>4 DEF Unfolds
<1>6. i = [s \in SUBSET S |-> i[s]]
  BY <1>4
<1>7. \A s \in SUBSET S : i[s] = g[s]
  <2> DEFINE Wrong == {s \in SUBSET S : i[s] # g[s]}
             Sizes == {Cardinality(s) : s \in Wrong}
  <2>0. \A s \in SUBSET S : Cardinality(s) \in Nat
    BY Parts
  <2> SUFFICES ASSUME Wrong # {} PROVE FALSE
    OBVIOUS
  <2>1. PICK n \in Sizes : \A m \in Sizes : n <= m
    <3>1. Sizes \subseteq Nat /\ Sizes # {}
      BY <2>0
    <3> HIDE DEF Sizes
    <3> QED BY <3>1, LeastExists
  <2>2. PICK s \in Wrong : n = Cardinality(s)
    BY <2>1
  <2>3. s # {}
    BY <1>2, <1>5, <2>2 DEF Unfolds
  <2> DEFINE c == CHOOSE x \in s : TRUE
  <2>4. s \ {c} \in SUBSET S /\ Cardinality(s \ {c}) = n - 1
    BY <2>2, <2>3, Parts
  <2>5. s \ {c} \notin Wrong
    <3>1. n \in Nat /\ ~(n <= n - 1)
      BY <2>0, <2>2
    <3> QED BY <2>1, <2>4, <3>1
  <2>6. i[s] = f[c] + i[s \ {c}] /\ g[s] = f[c] + g[s \ {c}]
    BY <1>2, <1>5, <2>2, <2>3 DEF Unfolds
  <2> QED BY <2>2, <2>4, <2>5, <2>6
<1> QED BY <1>1, <1>2, <1>7

(* A sum of nothing but zeros is zero.                                       *)
LEMMA SumZero ==
  ASSUME NEW S, IsFiniteSet(S), NEW f, \A x \in S : f[x] = 0
  PROVE  SumFunctionOnSet(f, S) = 0
<1>n. \A x \in S : f[x] \in Nat
  OBVIOUS
<1>1. PICK g \in [SUBSET S -> Nat] : Unfolds(g, f, S) /\ SumFunctionOnSet(f, S) = g[S]
  BY <1>n, SumUnfolds
<1> DEFINE Wrong == {s \in SUBSET S : g[s] # 0}
           Sizes == {Cardinality(s) : s \in Wrong}
<1>0. \A s \in SUBSET S : Cardinality(s) \in Nat
  BY Parts
<1> SUFFICES ASSUME Wrong # {} PROVE FALSE
  BY <1>1
<1>2. PICK n \in Sizes : \A m \in Sizes : n <= m
  <2>1. Sizes \subseteq Nat /\ Sizes # {}
    BY <1>0
  <2> HIDE DEF Sizes
  <2> QED BY <2>1, LeastExists
<1>3. PICK s \in Wrong : n = Cardinality(s)
  BY <1>2
<1>4. s # {}
  BY <1>1, <1>3 DEF Unfolds
<1> DEFINE c == CHOOSE x \in s : TRUE
<1>5. c \in S /\ s \ {c} \in SUBSET S /\ Cardinality(s \ {c}) = n - 1
  BY <1>3, <1>4, Parts
<1>6. s \ {c} \notin Wrong
  <2>1. n \in Nat /\ ~(n <= n - 1)
    BY <1>0, <1>3
  <2> QED BY <1>2, <1>5, <2>1
<1>7. g[s] = f[c] + g[s \ {c}]
  BY <1>1, <1>3, <1>4 DEF Unfolds
<1> QED BY <1>3, <1>5, <1>6, <1>7

(* The counts with one more at x.                                             *)
More(f, x) == [f EXCEPT ![x] = @ + 1]

(* One more at x raises by one the sums over the sets that hold x.           *)
LEMMA SumOneMore ==
  ASSUME NEW D, NEW f \in [D -> Nat], NEW S \in SUBSET D, IsFiniteSet(S), NEW x \in D
  PROVE  /\ SumFunctionOnSet(f, S) \in Nat
         /\ SumFunctionOnSet(More(f, x), S) = SumFunctionOnSet(f, S) + IF x \in S THEN 1 ELSE 0
<1> DEFINE h == More(f, x)
<1>h. h \in [D -> Nat] /\ \A y \in D : h[y] = f[y] + IF y = x THEN 1 ELSE 0
  BY DEF More
<1> HIDE DEF h
<1>1. PICK g \in [SUBSET S -> Nat] : Unfolds(g, f, S) /\ SumFunctionOnSet(f, S) = g[S]
  BY SumUnfolds
<1>2. PICK k \in [SUBSET S -> Nat] : Unfolds(k, h, S) /\ SumFunctionOnSet(h, S) = k[S]
  BY <1>h, SumUnfolds
<1> DEFINE Extra(s) == IF x \in s THEN 1 ELSE 0
           Wrong == {s \in SUBSET S : k[s] # g[s] + Extra(s)}
           Sizes == {Cardinality(s) : s \in Wrong}
<1>0. \A s \in SUBSET S : Cardinality(s) \in Nat
  BY Parts
<1>a. Wrong = {}
  <2> SUFFICES ASSUME Wrong # {} PROVE FALSE
    OBVIOUS
  <2>2. PICK n \in Sizes : \A m \in Sizes : n <= m
    <3>1. Sizes \subseteq Nat /\ Sizes # {}
      BY <1>0
    <3> HIDE DEF Sizes
    <3> QED BY <3>1, LeastExists
  <2>3. PICK s \in Wrong : n = Cardinality(s)
    BY <2>2
  <2>4. s # {}
    <3> SUFFICES ASSUME s = {} PROVE FALSE
      OBVIOUS
    <3>1. k[s] = 0 /\ g[s] = 0
      BY <1>1, <1>2, <2>3 DEF Unfolds
    <3>2. Extra(s) = 0
      OBVIOUS
    <3> QED BY <2>3, <3>1, <3>2
  <2> DEFINE c == CHOOSE y \in s : TRUE
  <2>5. c \in s /\ s \ {c} \in SUBSET S /\ Cardinality(s \ {c}) = n - 1
    BY <2>3, <2>4, Parts
  <2>6. s \ {c} \notin Wrong
    <3>1. n \in Nat /\ ~(n <= n - 1)
      BY <1>0, <2>3
    <3> QED BY <2>2, <2>5, <3>1
  <2>7. g[s] = f[c] + g[s \ {c}] /\ k[s] = h[c] + k[s \ {c}]
    BY <1>1, <1>2, <2>3, <2>4 DEF Unfolds
  <2> HIDE DEF c
  <2>8. f[c] \in Nat /\ g[s \ {c}] \in Nat /\ h[c] = f[c] + IF c = x THEN 1 ELSE 0
    BY <1>h, <2>3, <2>5
  <2>9. k[s \ {c}] = g[s \ {c}] + Extra(s \ {c})
    BY <2>5, <2>6
  <2>10. CASE c = x
    BY <2>3, <2>5, <2>7, <2>8, <2>9, <2>10
  <2>11. CASE c # x
    BY <2>3, <2>5, <2>7, <2>8, <2>9, <2>11
  <2> QED BY <2>10, <2>11
<1>b. k[S] = g[S] + Extra(S) /\ g[S] \in Nat
  BY <1>1, <1>a
<1> QED BY <1>1, <1>2, <1>b DEF h

-----------------------------------------------------------------------------
(* RateWindow.  A window that began at s has counted c codes: everything     *)
(* allowed since s is in it, and the code that opened it is one of them.     *)
(* A code that was counted late falls before s, but by no more than Lag, so  *)
(* whatever reaches that far is a full window less one, and this one.  When  *)
(* the window is over, nothing lies past its end; when the row is pruned,    *)
(* nothing lies within a window's length of any reading still under way.     *)

Sum(g, T) == SumFunctionOnSet(g, T)

(* What a window of the row says of g, the codes allowed at each time.       *)
WindowFits(g, s, c, limit, length) ==
  /\ \A u \in Times : u >= s + length => g[u] = 0
  /\ \A T \in SUBSET Times : (\A u \in T : u >= s) => Sum(g, T) <= c
  /\ \A T \in SUBSET Times : (\A u \in T : u > s) => Sum(g, T) <= c - 1
  /\ \A t \in Times : t >= s - Lag => Sum(g, Span(t, length - Lag + 1)) <= limit - 1 + c

(* What a row says of its windows, and what no row and no time yet say.      *)
RowFits ==
  row # NoRow =>
    /\ row.shortStart <= now /\ row.longStart <= now
    /\ WindowFits(granted, row.shortStart, row.shortCount, ShortLimit, Short)
    /\ WindowFits(granted, row.longStart, row.longCount, LongLimit, Long)
    /\ \A u \in Times : u > row.updated + Lag => granted[u] = 0

Forgotten ==
  row = NoRow => \A u \in Times : u >= now - Lag - Short \/ u >= now - Lag - Long => granted[u] = 0

NoneAhead == \A u \in Times : u > now => granted[u] = 0

(* Holds, of any function and at all times.                                  *)
HoldsAt(g, limit, length) == \A t \in Times : Sum(g, Span(t, length - Lag + 1)) < 2 * limit

(* The inductive invariant.                                                  *)
RateInv ==
  /\ RateTypeOK /\ RowFits /\ Forgotten /\ NoneAhead
  /\ HoldsAt(granted, ShortLimit, Short) /\ HoldsAt(granted, LongLimit, Long)

(* Times are naturals and every set of them is finite.                       *)
LEMMA TimesFinite ==
  ASSUME RateAssumption
  PROVE  /\ IsFiniteSet(Times) /\ Times \subseteq Nat
         /\ \A T \in SUBSET Times : IsFiniteSet(T)
<1>1. IsFiniteSet(Times) /\ Times \subseteq Nat
  BY FS_Interval DEF Times, RateAssumption
<1> QED BY <1>1, FS_Subset

(* One more code.                                                            *)
LEMMA GrantedOne ==
  ASSUME RateAssumption, NEW g \in [Times -> Nat], NEW at \in Times
  PROVE  /\ More(g, at) \in [Times -> Nat]
         /\ \A u \in Times : u # at => More(g, at)[u] = g[u]
         /\ \A T \in SUBSET Times :
              /\ Sum(g, T) \in Nat
              /\ Sum(More(g, at), T) = Sum(g, T) + IF at \in T THEN 1 ELSE 0
<1>1. More(g, at) \in [Times -> Nat] /\ \A u \in Times : u # at => More(g, at)[u] = g[u]
  BY DEF More
<1>2. ASSUME NEW T \in SUBSET Times
      PROVE  /\ Sum(g, T) \in Nat
             /\ Sum(More(g, at), T) = Sum(g, T) + IF at \in T THEN 1 ELSE 0
  <2>1. IsFiniteSet(T)
    BY TimesFinite
  <2> QED BY <2>1, SumOneMore DEF Sum
<1> QED BY <1>1, <1>2

(* Where no code was allowed the sum is zero.                                *)
LEMMA NoneGranted ==
  ASSUME RateAssumption, NEW g \in [Times -> Nat], NEW T \in SUBSET Times, \A u \in T : g[u] = 0
  PROVE  Sum(g, T) = 0
BY TimesFinite, SumZero DEF Sum

(* A window that goes on counting.                                           *)
LEMMA CountedFits ==
  ASSUME RateAssumption, NEW g \in [Times -> Nat], NEW at \in Times,
         NEW s \in Times, NEW c \in Nat, NEW limit \in Nat, NEW length \in Nat,
         WindowFits(g, s, c, limit, length), at >= s - Lag, at < s + length
  PROVE  WindowFits(More(g, at), s, c + 1, limit, length)
<1> DEFINE h == More(g, at)
<1>0. /\ Lag \in Nat \ {0} /\ Times \subseteq Nat
  BY TimesFinite DEF RateAssumption
<1>1. /\ \A u \in Times : u # at => h[u] = g[u]
      /\ \A T \in SUBSET Times : Sum(g, T) \in Nat /\ Sum(h, T) = Sum(g, T) + IF at \in T THEN 1 ELSE 0
  BY GrantedOne
<1> HIDE DEF h
<1>2. \A u \in Times : u >= s + length => h[u] = 0
  BY <1>0, <1>1 DEF WindowFits
<1>3. ASSUME NEW T \in SUBSET Times, \A u \in T : u >= s
      PROVE  Sum(h, T) <= c + 1
  <2>1. Sum(g, T) <= c
    BY <1>3 DEF WindowFits
  <2>2. Sum(g, T) \in Nat /\ Sum(h, T) = Sum(g, T) + IF at \in T THEN 1 ELSE 0
    BY <1>1
  <2> QED BY <2>1, <2>2
<1>4. ASSUME NEW T \in SUBSET Times, \A u \in T : u > s
      PROVE  Sum(h, T) <= (c + 1) - 1
  <2>1. Sum(g, T) <= c - 1
    BY <1>4 DEF WindowFits
  <2>2. Sum(g, T) \in Nat /\ Sum(h, T) = Sum(g, T) + IF at \in T THEN 1 ELSE 0
    BY <1>1
  <2> QED BY <2>1, <2>2
<1>5. ASSUME NEW t \in Times, t >= s - Lag
      PROVE  Sum(h, Span(t, length - Lag + 1)) <= limit - 1 + (c + 1)
  <2> DEFINE T == Span(t, length - Lag + 1)
  <2>1. Sum(g, T) <= limit - 1 + c
    BY <1>5 DEF WindowFits
  <2>2. Sum(g, T) \in Nat /\ Sum(h, T) = Sum(g, T) + IF at \in T THEN 1 ELSE 0
    <3>1. T \in SUBSET Times
      BY DEF Span
    <3> QED BY <1>1, <3>1
  <2> QED BY <2>1, <2>2
<1>6. WindowFits(h, s, c + 1, limit, length)
  BY <1>2, <1>3, <1>4, <1>5 DEF WindowFits
<1> QED BY <1>6 DEF h

(* A window that opens where nothing was allowed yet.                        *)
LEMMA OpenedFits ==
  ASSUME RateAssumption, NEW g \in [Times -> Nat], NEW at \in Times,
         NEW limit \in Nat \ {0}, NEW length \in Nat,
         \A u \in Times : u >= at => g[u] = 0,
         \A t \in Times : t >= at - Lag =>
           Sum(More(g, at), Span(t, length - Lag + 1)) <= limit, length > 0
  PROVE  WindowFits(More(g, at), at, 1, limit, length)
<1> DEFINE h == More(g, at)
<1>0. /\ Lag \in Nat \ {0} /\ Times \subseteq Nat
  BY TimesFinite DEF RateAssumption
<1>1. /\ \A u \in Times : u # at => h[u] = g[u]
      /\ \A T \in SUBSET Times : Sum(g, T) \in Nat /\ Sum(h, T) = Sum(g, T) + IF at \in T THEN 1 ELSE 0
  BY GrantedOne
<1>2. \A t \in Times : t >= at - Lag => Sum(h, Span(t, length - Lag + 1)) <= limit
  OBVIOUS
<1> HIDE DEF h
<1>3. \A u \in Times : u >= at + length => h[u] = 0
  BY <1>0, <1>1
<1>4. ASSUME NEW T \in SUBSET Times, \A u \in T : u >= at
      PROVE  Sum(h, T) = IF at \in T THEN 1 ELSE 0
  <2>1. Sum(g, T) = 0
    BY <1>4, NoneGranted
  <2> QED BY <1>1, <2>1
<1>5. \A T \in SUBSET Times : (\A u \in T : u >= at) => Sum(h, T) <= 1
  BY <1>4
<1>6. \A T \in SUBSET Times : (\A u \in T : u > at) => Sum(h, T) <= 0
  BY <1>0, <1>4
<1>7. WindowFits(h, at, 1, limit, length)
  BY <1>2, <1>3, <1>5, <1>6 DEF WindowFits
<1> QED BY <1>7 DEF h

(* A window that opens after one that is over.                               *)
LEMMA RestartedFits ==
  ASSUME RateAssumption, NEW g \in [Times -> Nat], NEW at \in Times,
         NEW s \in Times, NEW c \in Nat, NEW limit \in Nat \ {0}, NEW length \in Nat \ {0},
         WindowFits(g, s, c, limit, length), c <= limit, s <= at - length
  PROVE  WindowFits(More(g, at), at, 1, limit, length)
<1> DEFINE h == More(g, at)
<1>0. /\ Lag \in Nat \ {0} /\ Times \subseteq Nat
  BY TimesFinite DEF RateAssumption
<1>1. \A T \in SUBSET Times : Sum(g, T) \in Nat /\ Sum(h, T) = Sum(g, T) + IF at \in T THEN 1 ELSE 0
  BY GrantedOne
<1>2. \A u \in Times : u >= at => g[u] = 0
  BY <1>0 DEF WindowFits
<1>3. ASSUME NEW t \in Times, t >= at - Lag
      PROVE  Sum(h, Span(t, length - Lag + 1)) <= limit
  <2> DEFINE T == Span(t, length - Lag + 1)
  <2> HIDE DEF h
  <2>1. T \in SUBSET Times /\ \A u \in T : u >= s
    BY <1>0, <1>3 DEF Span
  <2>2. Sum(g, T) \in Nat /\ Sum(h, T) = Sum(g, T) + IF at \in T THEN 1 ELSE 0
    BY <1>1, <2>1
  <2>3. CASE at \notin T
    <3>1. Sum(g, T) <= c
      BY <2>1 DEF WindowFits
    <3> QED BY <2>2, <2>3, <3>1
  <2>4. CASE at \in T
    <3>1. \A u \in T : u > s
      BY <1>0, <1>3, <2>4 DEF Span
    <3>2. Sum(g, T) <= c - 1
      BY <2>1, <3>1 DEF WindowFits
    <3> QED BY <2>2, <2>4, <3>2
  <2> QED BY <2>3, <2>4
<1> QED BY <1>2, <1>3, OpenedFits

(* A window that opens in a new row.                                         *)
LEMMA FreshFits ==
  ASSUME RateAssumption, NEW g \in [Times -> Nat], NEW at \in Times,
         NEW limit \in Nat \ {0}, NEW length \in Nat \ {0},
         \A u \in Times : u >= at - length => g[u] = 0
  PROVE  WindowFits(More(g, at), at, 1, limit, length)
<1> DEFINE h == More(g, at)
<1>0. /\ Lag \in Nat \ {0} /\ Times \subseteq Nat
  BY TimesFinite DEF RateAssumption
<1>1. \A T \in SUBSET Times : Sum(g, T) \in Nat /\ Sum(h, T) = Sum(g, T) + IF at \in T THEN 1 ELSE 0
  BY GrantedOne
<1>2. \A u \in Times : u >= at => g[u] = 0
  BY <1>0
<1>3. ASSUME NEW t \in Times, t >= at - Lag
      PROVE  Sum(h, Span(t, length - Lag + 1)) <= limit
  <2> DEFINE T == Span(t, length - Lag + 1)
  <2> HIDE DEF h
  <2>1. T \in SUBSET Times /\ \A u \in T : u >= at - length
    BY <1>0, <1>3 DEF Span
  <2>2. Sum(g, T) = 0
    BY <2>1, NoneGranted
  <2> QED BY <1>1, <2>1, <2>2
<1> QED BY <1>2, <1>3, OpenedFits

(* What the windows promise follows for what holds the new code.             *)
LEMMA StillHolds ==
  ASSUME RateAssumption, NEW g \in [Times -> Nat], NEW at \in Times,
         NEW s \in Times, NEW c \in Nat, NEW limit \in Nat, NEW length \in Nat,
         HoldsAt(g, limit, length), WindowFits(More(g, at), s, c, limit, length),
         c <= limit, at >= s - Lag
  PROVE  HoldsAt(More(g, at), limit, length)
<1> DEFINE h == More(g, at)
<1>0. /\ Lag \in Nat \ {0} /\ Times \subseteq Nat
  BY TimesFinite DEF RateAssumption
<1>1. \A T \in SUBSET Times : Sum(g, T) \in Nat /\ Sum(h, T) = Sum(g, T) + IF at \in T THEN 1 ELSE 0
  BY GrantedOne
<1> SUFFICES ASSUME NEW t \in Times PROVE Sum(h, Span(t, length - Lag + 1)) < 2 * limit
  BY DEF HoldsAt
<1> DEFINE T == Span(t, length - Lag + 1)
<1>2. Sum(g, T) \in Nat /\ Sum(h, T) = Sum(g, T) + IF at \in T THEN 1 ELSE 0
  <2>1. T \in SUBSET Times
    BY DEF Span
  <2> HIDE DEF T, h
  <2> QED BY <1>1, <2>1
<1>3. Sum(h, T) < 2 * limit
  <2>1. CASE at \in T
    <3>1. t >= s - Lag
      BY <1>0, <2>1 DEF Span
    <3>2. Sum(h, T) <= limit - 1 + c
      BY <3>1 DEF WindowFits
    <3> HIDE DEF T, h
    <3> QED BY <1>2, <3>2
  <2>2. CASE at \notin T
    <3>1. Sum(g, T) < 2 * limit
      BY DEF HoldsAt
    <3> HIDE DEF T, h
    <3> QED BY <1>2, <2>2, <3>1
  <2> QED BY <2>1, <2>2
<1> QED BY <1>3

(* The initial state.                                                        *)
LEMMA RateInitial ==
  ASSUME RateAssumption, RateInit
  PROVE  RateInv
<1>0. Times \subseteq Nat /\ 0 \in Times /\ ShortLimit \in Nat \ {0} /\ LongLimit \in Nat \ {0}
  BY TimesFinite DEF RateAssumption, Times
<1>1. granted \in [Times -> Nat] /\ \A u \in Times : granted[u] = 0
  BY DEF RateInit
<1>2. RateTypeOK /\ Forgotten /\ NoneAhead
  BY <1>0, <1>1 DEF RateInit, RateTypeOK, Forgotten, NoneAhead
<1>3. RowFits
  BY DEF RateInit, RowFits
<1>4. \A t \in Times, n \in Int : Sum(granted, Span(t, n)) = 0
  BY <1>1, NoneGranted DEF Span
<1>5. ASSUME NEW limit \in Nat \ {0}, NEW length \in Nat
      PROVE  HoldsAt(granted, limit, length)
  <2>1. length - Lag + 1 \in Int
    BY DEF RateAssumption
  <2>2. \A t \in Times : Sum(granted, Span(t, length - Lag + 1)) < 2 * limit
    BY <1>4, <2>1
  <2> QED BY <2>2 DEF HoldsAt
<1> QED BY <1>0, <1>2, <1>3, <1>5 DEF RateInv, RateAssumption

(* Either window of a row that counts a code.                                *)
LEMMA WindowStep ==
  ASSUME RateAssumption, NEW g \in [Times -> Nat], NEW at \in Times,
         NEW s \in Times, NEW limit \in Nat \ {0}, NEW c \in 1..limit, NEW length \in Nat \ {0},
         WindowFits(g, s, c, limit, length), HoldsAt(g, limit, length),
         HasRoom(s, c, limit, length, at), at >= s - Lag
  PROVE  /\ WindowStart(s, length, at) \in {s, at}
         /\ WindowCount(s, c, length, at) \in 1..limit
         /\ WindowFits(More(g, at), WindowStart(s, length, at), WindowCount(s, c, length, at), limit, length)
         /\ HoldsAt(More(g, at), limit, length)
<1> DEFINE start == WindowStart(s, length, at)
           count == WindowCount(s, c, length, at)
<1>0. Lag \in Nat \ {0} /\ Times \subseteq Nat
  BY TimesFinite DEF RateAssumption
<1>1. CASE Over(s, length, at)
  <2>1. start = at /\ count = 1
    BY <1>1 DEF WindowStart, WindowCount
  <2>2. WindowFits(More(g, at), at, 1, limit, length)
    BY <1>1, RestartedFits DEF Over
  <2>3. HoldsAt(More(g, at), limit, length)
    BY <1>0, <2>2, StillHolds
  <2> QED BY <2>1, <2>2, <2>3
<1>2. CASE ~Over(s, length, at)
  <2>1. start = s /\ count = c + 1 /\ c < limit
    BY <1>2 DEF WindowStart, WindowCount, HasRoom
  <2>2. at < s + length
    BY <1>0, <1>2 DEF Over
  <2>3. WindowFits(More(g, at), s, c + 1, limit, length)
    BY <2>2, CountedFits
  <2>4. HoldsAt(More(g, at), limit, length)
    BY <2>1, <2>3, StillHolds
  <2> QED BY <2>1, <2>3, <2>4
<1> QED BY <1>1, <1>2

(* A code is allowed (reserveOtpRateLimit).                                  *)
LEMMA ReservesRate ==
  ASSUME RateAssumption, RateInv, ReserveRate
  PROVE  RateInv'
<1>0. /\ Lag \in Nat \ {0} /\ Times \subseteq Nat /\ now \in Times /\ now \in Nat
      /\ Times = 0..MaxTime /\ MaxTime \in Nat
      /\ Short \in Nat \ {0} /\ Long \in Nat \ {0} /\ ShortLimit \in Nat \ {0} /\ LongLimit \in Nat \ {0}
      /\ granted \in [Times -> Nat] /\ now' = now
  BY TimesFinite DEF RateAssumption, RateInv, RateTypeOK, ReserveRate, Times
<1>1. PICK at \in (now - Lag)..now :
        /\ at >= 0
        /\ \/ row = NoRow /\ row' = FirstRow(at)
           \/ row # NoRow /\ Allows(at) /\ row' = Updated(at)
        /\ granted' = More(granted, at)
  BY DEF ReserveRate, More
<1>2. at \in Times /\ at <= now /\ now <= at + Lag
  BY <1>0, <1>1
<1>3. granted' \in [Times -> Nat] /\ \A u \in Times : u # at => granted'[u] = granted[u]
  BY <1>0, <1>1, <1>2 DEF More
<1>4. NoneAhead'
  BY <1>0, <1>2, <1>3 DEF NoneAhead, RateInv
<1>5. \A u \in Times : u > at + Lag => granted'[u] = 0
  BY <1>0, <1>2, <1>3 DEF NoneAhead, RateInv
<1>6. CASE row = NoRow /\ row' = FirstRow(at)
  <2>1. /\ row' \in [shortStart : Times, shortCount : 1..ShortLimit,
                     longStart : Times, longCount : 1..LongLimit, updated : Times]
        /\ row' # NoRow
        /\ row'.shortStart = at /\ row'.longStart = at /\ row'.updated = at
        /\ row'.shortCount = 1 /\ row'.longCount = 1
    BY <1>0, <1>2, <1>6 DEF FirstRow, NoRow
  <2>2. \A u \in Times : u >= at - Short \/ u >= at - Long => granted[u] = 0
    BY <1>0, <1>2, <1>6 DEF Forgotten, RateInv
  <2>3. WindowFits(granted', at, 1, ShortLimit, Short) /\ WindowFits(granted', at, 1, LongLimit, Long)
    BY <1>0, <1>1, <1>2, <2>2, FreshFits
  <2>4. HoldsAt(granted', ShortLimit, Short) /\ HoldsAt(granted', LongLimit, Long)
    <3>1. ASSUME NEW limit \in Nat \ {0}, NEW length \in Nat, HoldsAt(granted, limit, length),
                 WindowFits(More(granted, at), at, 1, limit, length)
          PROVE  HoldsAt(More(granted, at), limit, length)
      <4>1. 1 \in Nat /\ 1 <= limit /\ at >= at - Lag
        BY <1>0, <1>2
      <4> QED BY <1>0, <1>2, <3>1, <4>1, StillHolds
    <3> QED BY <1>0, <1>1, <2>3, <3>1 DEF RateInv
  <2>5. RowFits'
    BY <1>0, <1>2, <1>5, <2>1, <2>3 DEF RowFits
  <2>6. RateTypeOK' /\ Forgotten'
    BY <1>0, <1>3, <2>1 DEF RateTypeOK, Forgotten
  <2> QED BY <1>4, <2>4, <2>5, <2>6 DEF RateInv, HoldsAt
<1>7. CASE row # NoRow /\ Allows(at) /\ row' = Updated(at)
  <2>0. row \in [shortStart : Times, shortCount : 1..ShortLimit,
                 longStart : Times, longCount : 1..LongLimit, updated : Times]
    BY <1>7 DEF RateInv, RateTypeOK
  <2>1. /\ row.shortStart \in Times /\ row.shortCount \in 1..ShortLimit /\ row.shortStart <= now
        /\ row.longStart \in Times /\ row.longCount \in 1..LongLimit /\ row.longStart <= now
        /\ WindowFits(granted, row.shortStart, row.shortCount, ShortLimit, Short)
        /\ WindowFits(granted, row.longStart, row.longCount, LongLimit, Long)
    BY <1>7, <2>0 DEF RateInv, RowFits
  <2>2. at >= row.shortStart - Lag /\ at >= row.longStart - Lag
    <3>1. row.shortStart \in Nat /\ row.longStart \in Nat /\ at \in Nat
      BY <1>0, <1>2, <2>1
    <3>2. row.shortStart <= now /\ row.longStart <= now
      BY <2>1
    <3>3. now \in Nat /\ Lag \in Nat /\ now <= at + Lag
      BY <1>0, <1>2
    <3> QED BY <3>1, <3>2, <3>3
  <2> DEFINE ss == WindowStart(row.shortStart, Short, at)
             sc == WindowCount(row.shortStart, row.shortCount, Short, at)
             ls == WindowStart(row.longStart, Long, at)
             lc == WindowCount(row.longStart, row.longCount, Long, at)
  <2>a. /\ HasRoom(row.shortStart, row.shortCount, ShortLimit, Short, at)
        /\ HasRoom(row.longStart, row.longCount, LongLimit, Long, at)
    BY <1>7 DEF Allows
  <2>b. /\ HoldsAt(granted, ShortLimit, Short) /\ HoldsAt(granted, LongLimit, Long)
        /\ granted' = More(granted, at)
    BY <1>1 DEF RateInv
  <2>c. row.shortStart \in Times /\ row.longStart \in Times /\ at \in Times
        /\ row.shortCount \in 1..ShortLimit /\ row.longCount \in 1..LongLimit
    BY <1>2, <2>1
  <2>d. /\ WindowFits(granted, row.shortStart, row.shortCount, ShortLimit, Short)
        /\ WindowFits(granted, row.longStart, row.longCount, LongLimit, Long)
    BY <2>1
  <2>e. /\ granted \in [Times -> Nat] /\ ShortLimit \in Nat \ {0} /\ LongLimit \in Nat \ {0}
        /\ Short \in Nat \ {0} /\ Long \in Nat \ {0}
    BY <1>0
  <2>3. /\ ss \in {row.shortStart, at} /\ sc \in 1..ShortLimit
        /\ WindowFits(More(granted, at), ss, sc, ShortLimit, Short)
        /\ HoldsAt(More(granted, at), ShortLimit, Short)
    BY <2>2, <2>a, <2>b, <2>c, <2>d, <2>e, WindowStep
  <2>4. /\ ls \in {row.longStart, at} /\ lc \in 1..LongLimit
        /\ WindowFits(More(granted, at), ls, lc, LongLimit, Long)
        /\ HoldsAt(More(granted, at), LongLimit, Long)
    BY <2>2, <2>a, <2>b, <2>c, <2>d, <2>e, WindowStep
  <2>5. /\ row' = [shortStart |-> ss, shortCount |-> sc, longStart |-> ls, longCount |-> lc, updated |-> at]
    BY <1>7 DEF Updated
  <2> HIDE DEF ss, sc, ls, lc
  <2>6. /\ row' \in [shortStart : Times, shortCount : 1..ShortLimit,
                     longStart : Times, longCount : 1..LongLimit, updated : Times]
        /\ row' # NoRow
        /\ row'.shortStart = ss /\ row'.longStart = ls /\ row'.updated = at
        /\ row'.shortCount = sc /\ row'.longCount = lc
    BY <2>c, <2>3, <2>4, <2>5 DEF NoRow
  <2>7. RowFits'
    BY <1>0, <1>2, <1>5, <2>1, <2>b, <2>3, <2>4, <2>6 DEF RowFits
  <2>8. RateTypeOK' /\ Forgotten'
    BY <1>0, <1>3, <2>6 DEF RateTypeOK, Forgotten
  <2> QED BY <1>4, <2>b, <2>3, <2>4, <2>7, <2>8 DEF RateInv, HoldsAt
<1> QED BY <1>1, <1>6, <1>7

(* An old row is pruned (pruneOtpRateLimits).                                *)
LEMMA PrunesRate ==
  ASSUME RateAssumption, RateInv, Prune
  PROVE  RateInv'
<1>0. /\ Lag \in Nat \ {0} /\ Times \subseteq Nat /\ now \in Nat /\ Retention \in Nat
      /\ Short \in Nat /\ Long \in Nat /\ Retention >= Short + 2 * Lag /\ Retention >= Long + 2 * Lag
      /\ row.updated \in Nat /\ row.updated < now - Retention
  BY TimesFinite DEF RateAssumption, RateInv, RateTypeOK, Prune, Stale
<1>1. \A u \in Times : u > row.updated + Lag => granted[u] = 0
  BY DEF RateInv, RowFits, Prune
<1>2. \A u \in Times : u >= now - Lag - Short \/ u >= now - Lag - Long => granted[u] = 0
  BY <1>0, <1>1
<1> QED BY <1>2 DEF Prune, RateInv, RateTypeOK, RowFits, Forgotten, NoneAhead, HoldsAt, WindowFits

(* Time passes.                                                              *)
LEMMA TicksRate ==
  ASSUME RateAssumption, RateInv, Tick \/ UNCHANGED rateVars
  PROVE  RateInv'
<1>0. /\ Lag \in Nat \ {0} /\ Times \subseteq Nat /\ now \in Nat /\ now' \in Nat
      /\ now' \in Times /\ now <= now'
      /\ Short \in Nat /\ Long \in Nat /\ row' = row /\ granted' = granted
  BY TimesFinite DEF RateAssumption, RateInv, RateTypeOK, Tick, rateVars, Times
<1>1. RateTypeOK'
  BY <1>0 DEF RateInv, RateTypeOK
<1>2. Forgotten' /\ NoneAhead'
  <2>1. ASSUME NEW u \in Times
        PROVE  /\ u > now' => u > now
               /\ u >= now' - Lag - Short => u >= now - Lag - Short
               /\ u >= now' - Lag - Long => u >= now - Lag - Long
    <3>1. u \in Nat /\ now \in Nat /\ now' \in Nat /\ now <= now'
      BY <1>0
    <3>2. Lag \in Nat /\ Short \in Nat /\ Long \in Nat
      BY <1>0
    <3>3. \A v, w \in Nat : v <= w =>
            /\ u > w => u > v
            /\ u >= w - Lag - Short => u >= v - Lag - Short
            /\ u >= w - Lag - Long => u >= v - Lag - Long
      BY <3>1, <3>2
    <3> QED BY <3>1, <3>3
  <2>2. NoneAhead'
    BY <1>0, <2>1 DEF RateInv, NoneAhead
  <2>3. Forgotten'
    BY <1>0, <2>1 DEF RateInv, Forgotten
  <2> QED BY <2>2, <2>3
<1>3. RowFits'
  <2>1. row # NoRow => row.shortStart \in Nat /\ row.longStart \in Nat
    BY <1>0 DEF RateInv, RateTypeOK
  <2>2. row # NoRow => row.shortStart <= now' /\ row.longStart <= now'
    BY <1>0, <2>1 DEF RateInv, RowFits
  <2>3. /\ \A s, c, limit, length : WindowFits(granted, s, c, limit, length) =>
             WindowFits(granted', s, c, limit, length)
    BY <1>0
  <2> QED BY <1>0, <2>2, <2>3 DEF RateInv, RowFits
<1>4. HoldsAt(granted', ShortLimit, Short) /\ HoldsAt(granted', LongLimit, Long)
  BY <1>0 DEF RateInv
<1> QED BY <1>1, <1>2, <1>3, <1>4 DEF RateInv, HoldsAt

(* No span of time as long as a window, less what a clock reading can be     *)
(* older than a tick, has as many codes as two full windows                  *)
(* (reserveOtpRateLimit, pruneOtpRateLimits).                                *)
THEOREM RateSafe ==
  ASSUME RateAssumption
  PROVE  RateSpec => []WindowsHold
<1>1. RateInit => RateInv
  BY RateInitial
<1>2. RateInv /\ [RateNext]_rateVars => RateInv'
  BY ReservesRate, PrunesRate, TicksRate DEF RateNext
<1>3. RateInv => WindowsHold
  <2> SUFFICES ASSUME RateInv PROVE WindowsHold
    OBVIOUS
  <2>1. \A t \in 0..now : t \in Times
    BY TimesFinite DEF RateInv, RateTypeOK, Times, RateAssumption
  <2>2. Holds(ShortLimit, Short) /\ Holds(LongLimit, Long)
    BY <2>1 DEF RateInv, HoldsAt, Holds, Within, Sum
  <2> QED BY <2>2 DEF RateInv, WindowsHold
<1> QED BY <1>1, <1>2, <1>3, PTL DEF RateSpec

-----------------------------------------------------------------------------
(* PngImage.                                                                 *)

(* A sum of equal numbers.                                                   *)
LEMMA SumEqual ==
  ASSUME NEW S, IsFiniteSet(S), NEW c \in Nat, NEW f, \A x \in S : f[x] = c
  PROVE  SumFunctionOnSet(f, S) = c * Cardinality(S)
<1>n. \A x \in S : f[x] \in Nat
  OBVIOUS
<1>1. PICK g \in [SUBSET S -> Nat] : Unfolds(g, f, S) /\ SumFunctionOnSet(f, S) = g[S]
  BY <1>n, SumUnfolds
<1> DEFINE Wrong == {s \in SUBSET S : g[s] # c * Cardinality(s)}
           Sizes == {Cardinality(s) : s \in Wrong}
<1>0. \A s \in SUBSET S : Cardinality(s) \in Nat
  BY Parts
<1> SUFFICES ASSUME Wrong # {} PROVE FALSE
  BY <1>1
<1>2. PICK n \in Sizes : \A m \in Sizes : n <= m
  <2>1. Sizes \subseteq Nat /\ Sizes # {}
    BY <1>0
  <2> HIDE DEF Sizes
  <2> QED BY <2>1, LeastExists
<1>3. PICK s \in Wrong : n = Cardinality(s)
  BY <1>2
<1>4. s # {}
  <2> SUFFICES ASSUME s = {} PROVE FALSE
    OBVIOUS
  <2>1. g[s] = 0 /\ Cardinality(s) = 0
    BY <1>1, <1>3, FS_EmptySet DEF Unfolds
  <2> QED BY <1>3, <2>1
<1> DEFINE d == CHOOSE x \in s : TRUE
<1>5. d \in S /\ s \ {d} \in SUBSET S /\ Cardinality(s \ {d}) = n - 1
  BY <1>3, <1>4, Parts
<1>6. s \ {d} \notin Wrong
  <2>1. n \in Nat /\ ~(n <= n - 1)
    BY <1>0, <1>3
  <2> QED BY <1>2, <1>5, <2>1
<1>7. g[s] = f[d] + g[s \ {d}]
  BY <1>1, <1>3, <1>4 DEF Unfolds
<1>8. g[s \ {d}] = c * (n - 1)
  BY <1>5, <1>6
<1>9. \A a \in Nat : c + c * (a - 1) = c * a
  OBVIOUS
<1>10. n \in Nat
  BY <1>0, <1>3
<1> QED BY <1>3, <1>5, <1>7, <1>8, <1>9, <1>10

(* Counting every k-th number.                                               *)
Strided(size, start, k) == {x \in 0..(size - 1) : x >= start /\ (x - start) % k = 0}

(* As many pixels of a dimension are in a pass as PassDimension counts.      *)
LEMMA StridedCount ==
  ASSUME NEW size \in Nat, NEW start \in Nat, NEW k \in {1, 2, 4, 8}
  PROVE  /\ IsFiniteSet(Strided(size, start, k))
         /\ Cardinality(Strided(size, start, k)) = PassDimension(size, start, k)
         /\ PassDimension(size, start, k) \in Nat
<1> DEFINE n == PassDimension(size, start, k)
           f == [i \in 1..n |-> start + (i - 1) * k]
           T == Strided(size, start, k)
<1>1. n \in Nat
  BY DEF PassDimension, CeilDiv
<1>2. \A i \in 1..n : start + (i - 1) * k \in T
  <2>1. CASE k = 1
    BY <1>1, <2>1 DEF PassDimension, CeilDiv, Strided
  <2>2. CASE k = 2
    BY <1>1, <2>2 DEF PassDimension, CeilDiv, Strided
  <2>3. CASE k = 4
    BY <1>1, <2>3 DEF PassDimension, CeilDiv, Strided
  <2>4. CASE k = 8
    BY <1>1, <2>4 DEF PassDimension, CeilDiv, Strided
  <2> QED BY <2>1, <2>2, <2>3, <2>4
<1>3. \A i, j \in 1..n : start + (i - 1) * k = start + (j - 1) * k => i = j
  <2>1. CASE k = 1
    BY <1>1, <2>1
  <2>2. CASE k = 2
    BY <1>1, <2>2
  <2>3. CASE k = 4
    BY <1>1, <2>3
  <2>4. CASE k = 8
    BY <1>1, <2>4
  <2> QED BY <2>1, <2>2, <2>3, <2>4
<1>4. \A x \in T : (x - start) \div k + 1 \in 1..n /\ start + ((x - start) \div k) * k = x
  <2>1. CASE k = 1
    BY <1>1, <2>1 DEF PassDimension, CeilDiv, Strided
  <2>2. CASE k = 2
    BY <1>1, <2>2 DEF PassDimension, CeilDiv, Strided
  <2>3. CASE k = 4
    BY <1>1, <2>3 DEF PassDimension, CeilDiv, Strided
  <2>4. CASE k = 8
    BY <1>1, <2>4 DEF PassDimension, CeilDiv, Strided
  <2> QED BY <2>1, <2>2, <2>3, <2>4
<1>5. f \in Bijection(1..n, T)
  <2>1. \A x \in T : \E i \in 1..n : f[i] = x
    <3> SUFFICES ASSUME NEW x \in T PROVE \E i \in 1..n : f[i] = x
      OBVIOUS
    <3>1. (x - start) \div k + 1 \in 1..n /\ (((x - start) \div k + 1) - 1) = (x - start) \div k
      BY <1>4 DEF Strided
    <3> QED BY <1>4, <3>1
  <2>2. f \in [1..n -> T]
    BY <1>2
  <2>3. \A i, j \in 1..n : f[i] = f[j] => i = j
    BY <1>3
  <2> HIDE DEF f, T, n
  <2> QED BY <2>1, <2>2, <2>3 DEF Bijection, Injection, Surjection, IsInjective
<1>6. IsFiniteSet(1..n) /\ Cardinality(1..n) = n
  BY <1>1, FS_Interval
<1> QED
  <2>1. IsFiniteSet(T) /\ Cardinality(T) = Cardinality(1..n)
    <3>1. ExistsBijection(1..n, T)
      <4> HIDE DEF f, T, n
      <4> QED BY <1>5 DEF ExistsBijection
    <3> HIDE DEF f, T, n
    <3> QED BY <1>6, <3>1, FS_Bijection
  <2> QED BY <1>1, <1>6, <2>1

(* The pixels of a pass, and their rows and columns.                         *)
LEMMA PassGrid ==
  ASSUME NEW w \in Nat, NEW n \in Nat, NEW h, h.width = w, h.height = n,
         NEW p, p[1] \in Nat, p[2] \in Nat, p[3] \in {1, 2, 4, 8}, p[4] \in {1, 2, 4, 8}
  PROVE  PassPixels(h, p) = Strided(w, p[1], p[3]) \X Strided(n, p[2], p[4])
BY DEF PassPixels, Strided

(* The bytes of a pass, pixel by pixel, are the ones of its scanlines.       *)
LEMMA PassIsWhole ==
  ASSUME NEW w \in Nat, NEW n \in Nat, NEW h, h.width = w, h.height = n, BitsPerPixel(h) \in Nat,
         NEW p, p[1] \in Nat, p[2] \in Nat, p[3] \in {1, 2, 4, 8}, p[4] \in {1, 2, 4, 8}
  PROVE  PassBytes(h, p) = ScanlinesOf(h, p)
<1> DEFINE cols == Strided(w, p[1], p[3])
           lines == Strided(n, p[2], p[4])
           cw == PassDimension(w, p[1], p[3])
           cn == PassDimension(n, p[2], p[4])
           each == CeilDiv(cw * BitsPerPixel(h), 8) + 1
           ys == {px[2] : px \in PassPixels(h, p)}
           f == [y \in ys |-> 1 + CeilDiv(Cardinality(RowPixels(h, p, y)) * BitsPerPixel(h), 8)]
<1>1. PassPixels(h, p) = cols \X lines
  BY PassGrid
<1>2. /\ IsFiniteSet(cols) /\ Cardinality(cols) = cw /\ cw \in Nat
      /\ IsFiniteSet(lines) /\ Cardinality(lines) = cn /\ cn \in Nat
  BY StridedCount
<1>3. PassBytes(h, p) = SumFunctionOnSet(f, ys)
  BY DEF PassBytes, SumFunction
<1>4. ScanlinesOf(h, p) = IF cw = 0 \/ cn = 0 THEN 0 ELSE each * cn
  BY DEF ScanlinesOf
<1>5. each \in Nat
  <2>1. cw * BitsPerPixel(h) \in Nat
    BY <1>2
  <2> HIDE DEF cw
  <2> QED BY <2>1 DEF CeilDiv
<1>6. CASE cw = 0 \/ cn = 0
  <2>1. cols = {} \/ lines = {}
    <3> HIDE DEF cols, lines, cw, cn
    <3> QED BY <1>2, <1>6, FS_EmptySet
  <2>2. ys = {}
    BY <1>1, <2>1
  <2>3. SumFunctionOnSet(f, {}) = 0
    <3> HIDE DEF f
    <3> QED BY SumZero, FS_EmptySet
  <2> QED BY <1>3, <1>4, <1>6, <2>2, <2>3
<1>7. CASE cw # 0 /\ cn # 0
  <2>1. cols # {}
    <3> HIDE DEF cols, lines, cw, cn
    <3> QED BY <1>2, <1>7, FS_EmptySet
  <2>2. ys = lines
    <3> HIDE DEF cols, lines
    <3>1. \A px \in cols \X lines : px[2] \in lines
      OBVIOUS
    <3>2. PICK x \in cols : TRUE
      BY <2>1
    <3>3. \A y \in lines : <<x, y>> \in cols \X lines /\ <<x, y>>[2] = y
      OBVIOUS
    <3>4. \A y \in lines : y \in ys
      BY <1>1, <3>3
    <3> QED BY <1>1, <3>1, <3>4
  <2>3. ASSUME NEW y \in lines PROVE f[y] = each
    <3>1. RowPixels(h, p, y) = cols \X {y}
      <4> HIDE DEF cols, lines
      <4> QED BY <1>1 DEF RowPixels
    <3>2. Cardinality(cols \X {y}) = cw * 1
      <4> HIDE DEF cols, lines, cw, cn
      <4>1. IsFiniteSet({y}) /\ Cardinality({y}) = 1
        BY FS_Singleton
      <4> QED BY <1>2, <4>1, FS_Product
    <3>3. cw * 1 = cw
      BY <1>2
    <3>4. f[y] = 1 + CeilDiv(Cardinality(RowPixels(h, p, y)) * BitsPerPixel(h), 8)
      BY <2>2
    <3>5. f[y] = 1 + CeilDiv(cw * BitsPerPixel(h), 8)
      <4> HIDE DEF f, cw, cols
      <4> QED BY <3>1, <3>2, <3>3, <3>4
    <3>6. cw * BitsPerPixel(h) \in Nat
      BY <1>2
    <3>7. CeilDiv(cw * BitsPerPixel(h), 8) \in Nat
      <4> HIDE DEF cw
      <4> QED BY <3>6 DEF CeilDiv
    <3> HIDE DEF f, cw
    <3> QED BY <3>5, <3>7
  <2>4. SumFunctionOnSet(f, lines) = each * cn
    <3> HIDE DEF f, lines, each, cn
    <3> QED BY <1>2, <1>5, <2>3, SumEqual
  <2> QED BY <1>3, <1>4, <1>7, <2>2, <2>4
<1> QED
  <2>1. (cw = 0 \/ cn = 0) \/ (cw # 0 /\ cn # 0)
    OBVIOUS
  <2> HIDE DEF cw, cn
  <2> QED BY <1>6, <1>7, <2>1

(* The numbers a pass takes, by what they leave divided by eight.            *)
LEMMA Eighths ==
  /\ \A z \in Nat : z >= 0 /\ (z - 0) % 8 = 0 <=> z % 8 = 0
  /\ \A z \in Nat : z >= 4 /\ (z - 4) % 8 = 0 <=> z % 8 = 4
  /\ \A z \in Nat : z % 8 \in 0..7
<1>1. \A z \in Nat : z >= 0 /\ (z - 0) % 8 = 0 <=> z % 8 = 0
  OBVIOUS
<1>2. \A z \in Nat : z >= 4 /\ (z - 4) % 8 = 0 <=> z % 8 = 4
  OBVIOUS
<1>3. \A z \in Nat : z % 8 \in 0..7
  OBVIOUS
<1> QED BY <1>1, <1>2, <1>3

(* The passes with a step of four.                                           *)
LEMMA Fourths ==
  /\ \A z \in Nat : z >= 0 /\ (z - 0) % 4 = 0 <=> z % 8 \in {0, 4}
  /\ \A z \in Nat : z >= 2 /\ (z - 2) % 4 = 0 <=> z % 8 \in {2, 6}
<1>1. \A z \in Nat : z >= 0 /\ (z - 0) % 4 = 0 <=> z % 8 \in {0, 4}
  OBVIOUS
<1>2. \A z \in Nat : z >= 2 /\ (z - 2) % 4 = 0 <=> z % 8 \in {2, 6}
  OBVIOUS
<1> QED BY <1>1, <1>2

(* The passes with a step of two or one.                                     *)
LEMMA Halves ==
  /\ \A z \in Nat : z >= 0 /\ (z - 0) % 2 = 0 <=> z % 8 \in {0, 2, 4, 6}
  /\ \A z \in Nat : z >= 1 /\ (z - 1) % 2 = 0 <=> z % 8 \in {1, 3, 5, 7}
  /\ \A z \in Nat : z >= 0 /\ (z - 0) % 1 = 0
<1>1. \A z \in Nat : z >= 0 /\ (z - 0) % 2 = 0 <=> z % 8 \in {0, 2, 4, 6}
  OBVIOUS
<1>2. \A z \in Nat : z >= 1 /\ (z - 1) % 2 = 0 <=> z % 8 \in {1, 3, 5, 7}
  OBVIOUS
<1>3. \A z \in Nat : z >= 0 /\ (z - 0) % 1 = 0
  OBVIOUS
<1> QED BY <1>1, <1>2, <1>3

(* Some pass takes it.                                                       *)
LEMMA SomePass ==
  ASSUME NEW r \in 0..7, NEW s \in 0..7
  PROVE  \/ r = 0 /\ s = 0
         \/ r = 4 /\ s = 0
         \/ r \in {0, 4} /\ s = 4
         \/ r \in {2, 6} /\ s \in {0, 4}
         \/ r \in {0, 2, 4, 6} /\ s \in {2, 6}
         \/ r \in {1, 3, 5, 7} /\ s \in {0, 2, 4, 6}
         \/ s \in {1, 3, 5, 7}
OBVIOUS

(* Each pixel is of one pass.                                                *)
LEMMA OnePass ==
  ASSUME NEW h, h.width \in Nat, h.height \in Nat, h.adam7 \in BOOLEAN,
         NEW x \in 0..h.width - 1, NEW y \in 0..h.height - 1
  PROVE  Cardinality({p \in Passes(h) : <<x, y>> \in PassPixels(h, p)}) = 1
<1> DEFINE of == {p \in Passes(h) : <<x, y>> \in PassPixels(h, p)}
<1>1. x \in Nat /\ y \in Nat
  OBVIOUS
<1>2. \A a, b, c, d : <<x, y>> \in PassPixels(h, <<a, b, c, d>>)
        <=> /\ x >= a /\ (x - a) % c = 0
            /\ y >= b /\ (y - b) % d = 0
  BY DEF PassPixels
<1>3. CASE ~h.adam7
  <2>1. <<0, 0, 1, 1>> \in of
    BY <1>1, <1>2, <1>3 DEF Passes
  <2>2. of = {<<0, 0, 1, 1>>}
    BY <1>3, <2>1 DEF Passes
  <2> QED BY <2>2, FS_Singleton
<1>4. CASE h.adam7
  <2>0. \A z \in {x, y} :
          /\ z >= 0 /\ (z - 0) % 8 = 0 <=> z % 8 = 0
          /\ z >= 4 /\ (z - 4) % 8 = 0 <=> z % 8 = 4
          /\ z >= 0 /\ (z - 0) % 4 = 0 <=> z % 8 \in {0, 4}
          /\ z >= 2 /\ (z - 2) % 4 = 0 <=> z % 8 \in {2, 6}
          /\ z >= 0 /\ (z - 0) % 2 = 0 <=> z % 8 \in {0, 2, 4, 6}
          /\ z >= 1 /\ (z - 1) % 2 = 0 <=> z % 8 \in {1, 3, 5, 7}
          /\ z >= 0 /\ (z - 0) % 1 = 0
    BY <1>1, Eighths, Fourths, Halves
  <2>1. <<x, y>> \in PassPixels(h, <<0, 0, 8, 8>>) <=> x % 8 = 0 /\ y % 8 = 0
    <3>1. <<x, y>> \in PassPixels(h, <<0, 0, 8, 8>>)
            <=> x >= 0 /\ (x - 0) % 8 = 0 /\ y >= 0 /\ (y - 0) % 8 = 0
      BY <1>2
    <3> QED BY <2>0, <3>1
  <2>2. <<x, y>> \in PassPixels(h, <<4, 0, 8, 8>>) <=> x % 8 = 4 /\ y % 8 = 0
    <3>1. <<x, y>> \in PassPixels(h, <<4, 0, 8, 8>>)
            <=> x >= 4 /\ (x - 4) % 8 = 0 /\ y >= 0 /\ (y - 0) % 8 = 0
      BY <1>2
    <3> QED BY <2>0, <3>1
  <2>3. <<x, y>> \in PassPixels(h, <<0, 4, 4, 8>>) <=> x % 8 \in {0, 4} /\ y % 8 = 4
    <3>1. <<x, y>> \in PassPixels(h, <<0, 4, 4, 8>>)
            <=> x >= 0 /\ (x - 0) % 4 = 0 /\ y >= 4 /\ (y - 4) % 8 = 0
      BY <1>2
    <3> QED BY <2>0, <3>1
  <2>4. <<x, y>> \in PassPixels(h, <<2, 0, 4, 4>>) <=> x % 8 \in {2, 6} /\ y % 8 \in {0, 4}
    <3>1. <<x, y>> \in PassPixels(h, <<2, 0, 4, 4>>)
            <=> x >= 2 /\ (x - 2) % 4 = 0 /\ y >= 0 /\ (y - 0) % 4 = 0
      BY <1>2
    <3> QED BY <2>0, <3>1
  <2>5. <<x, y>> \in PassPixels(h, <<0, 2, 2, 4>>) <=> x % 8 \in {0, 2, 4, 6} /\ y % 8 \in {2, 6}
    <3>1. <<x, y>> \in PassPixels(h, <<0, 2, 2, 4>>)
            <=> x >= 0 /\ (x - 0) % 2 = 0 /\ y >= 2 /\ (y - 2) % 4 = 0
      BY <1>2
    <3> QED BY <2>0, <3>1
  <2>6. <<x, y>> \in PassPixels(h, <<1, 0, 2, 2>>) <=> x % 8 \in {1, 3, 5, 7} /\ y % 8 \in {0, 2, 4, 6}
    <3>1. <<x, y>> \in PassPixels(h, <<1, 0, 2, 2>>)
            <=> x >= 1 /\ (x - 1) % 2 = 0 /\ y >= 0 /\ (y - 0) % 2 = 0
      BY <1>2
    <3> QED BY <2>0, <3>1
  <2>7. <<x, y>> \in PassPixels(h, <<0, 1, 1, 2>>) <=> y % 8 \in {1, 3, 5, 7}
    <3>1. <<x, y>> \in PassPixels(h, <<0, 1, 1, 2>>)
            <=> x >= 0 /\ (x - 0) % 1 = 0 /\ y >= 1 /\ (y - 1) % 2 = 0
      BY <1>2
    <3> QED BY <2>0, <3>1
  <2>8. x % 8 \in 0..7 /\ y % 8 \in 0..7
    BY <1>1, Eighths
  <2>9. of = {p \in Adam7 : <<x, y>> \in PassPixels(h, p)}
    BY <1>4 DEF Passes
  <2>10. \E p : of = {p}
    <3>1. CASE x % 8 = 0 /\ y % 8 = 0
      <4>1. of = {<<0, 0, 8, 8>>}
        BY <2>1, <2>2, <2>3, <2>4, <2>5, <2>6, <2>7, <2>9, <3>1 DEF Adam7
      <4> QED BY <4>1
    <3>2. CASE x % 8 = 4 /\ y % 8 = 0
      <4>1. of = {<<4, 0, 8, 8>>}
        BY <2>1, <2>2, <2>3, <2>4, <2>5, <2>6, <2>7, <2>9, <3>2 DEF Adam7
      <4> QED BY <4>1
    <3>3. CASE x % 8 \in {0, 4} /\ y % 8 = 4
      <4>1. of = {<<0, 4, 4, 8>>}
        BY <2>1, <2>2, <2>3, <2>4, <2>5, <2>6, <2>7, <2>9, <3>3 DEF Adam7
      <4> QED BY <4>1
    <3>4. CASE x % 8 \in {2, 6} /\ y % 8 \in {0, 4}
      <4>1. of = {<<2, 0, 4, 4>>}
        BY <2>1, <2>2, <2>3, <2>4, <2>5, <2>6, <2>7, <2>9, <3>4 DEF Adam7
      <4> QED BY <4>1
    <3>5. CASE x % 8 \in {0, 2, 4, 6} /\ y % 8 \in {2, 6}
      <4>1. of = {<<0, 2, 2, 4>>}
        BY <2>1, <2>2, <2>3, <2>4, <2>5, <2>6, <2>7, <2>9, <3>5 DEF Adam7
      <4> QED BY <4>1
    <3>6. CASE x % 8 \in {1, 3, 5, 7} /\ y % 8 \in {0, 2, 4, 6}
      <4>1. of = {<<1, 0, 2, 2>>}
        BY <2>1, <2>2, <2>3, <2>4, <2>5, <2>6, <2>7, <2>9, <3>6 DEF Adam7
      <4> QED BY <4>1
    <3>7. CASE y % 8 \in {1, 3, 5, 7}
      <4>1. of = {<<0, 1, 1, 2>>}
        BY <2>1, <2>2, <2>3, <2>4, <2>5, <2>6, <2>7, <2>9, <3>7 DEF Adam7
      <4> QED BY <4>1
    <3>8. \/ x % 8 = 0 /\ y % 8 = 0
          \/ x % 8 = 4 /\ y % 8 = 0
          \/ x % 8 \in {0, 4} /\ y % 8 = 4
          \/ x % 8 \in {2, 6} /\ y % 8 \in {0, 4}
          \/ x % 8 \in {0, 2, 4, 6} /\ y % 8 \in {2, 6}
          \/ x % 8 \in {1, 3, 5, 7} /\ y % 8 \in {0, 2, 4, 6}
          \/ y % 8 \in {1, 3, 5, 7}
      <4> HIDE DEF of
      <4> QED BY <2>8, SomePass
    <3> HIDE DEF of
    <3> QED BY <3>1, <3>2, <3>3, <3>4, <3>5, <3>6, <3>7, <3>8
  <2>11. Cardinality(of) = 1
    <3> HIDE DEF of
    <3> QED BY <2>10, FS_Singleton
  <2> QED BY <2>11
<1> QED BY <1>3, <1>4

-----------------------------------------------------------------------------
(* The inductive invariant of the reader.                                    *)

HeaderOK(h) == h \in [width : Nat, height : Nat, color : Nat, depth : Nat, adam7 : BOOLEAN]
Chunk ==
  [type : {"IHDR"}, header : [width : Nat, height : Nat, color : Nat, depth : Nat, adam7 : BOOLEAN], n : {13}]
    \cup [type : {"PLTE"}, n : {1, 2, 3}]
    \cup [type : {"tRNS"}, n : {1, 2, 3, 6}]
    \cup [type : {"IDAT"}, n : {1}]
    \cup [type : {"IEND"}, n : {0, 1}]
    \cup [type : {"ancillary", "critical", "corrupt"}, n : {0}]

PngTypeOK ==
  /\ chunks \in Seq(Chunk)
  /\ HeaderOK(header)
  /\ palette \in 0..3
  /\ transparencySeen \in BOOLEAN /\ iendSeen \in BOOLEAN
  /\ idat \in {"none", "open", "closed"}
  /\ verdict \in {"reading", "refused", "broken", "unfit", "rows"}
  /\ verdict = "rows" => decoded = ScanlineBytes(header)

(* What the flags say of the chunks.                                         *)
HeaderFlag == header = chunks[1].header /\ header # NoHeader
PaletteFlag == (palette = 0 <=> At("PLTE") = {}) /\ \A i \in At("PLTE") : palette = chunks[i].n
DataFlag ==
  /\ idat = "none" <=> At("IDAT") = {}
  /\ idat = "open" /\ ~iendSeen => Len(chunks) \in At("IDAT")
  /\ idat = "closed" => Len(chunks) \notin At("IDAT")
OtherFlags == (transparencySeen <=> At("tRNS") # {}) /\ (iendSeen <=> At("IEND") # {})
Flags == HeaderFlag /\ PaletteFlag /\ DataFlag /\ OtherFlags

Empty == header = NoHeader /\ palette = 0 /\ idat = "none" /\ ~transparencySeen /\ ~iendSeen

ReaderInv ==
  /\ PngTypeOK
  /\ chunks = <<>> => Empty /\ verdict = "reading"
  /\ chunks # <<>> /\ verdict # "refused" => Flags
  /\ ReadsExactlyPng

(* What one more chunk does to the places of each type.                      *)
LEMMA Grown ==
  ASSUME chunks \in Seq(Chunk), NEW c \in Chunk, chunks' = Append(chunks, c)
  PROVE  /\ chunks' \in Seq(Chunk) /\ Len(chunks) \in Nat /\ Len(chunks') = Len(chunks) + 1
         /\ \A t : At(t) \subseteq 1..Len(chunks)
         /\ \A t : At(t)' = IF c.type = t THEN At(t) \cup {Len(chunks) + 1} ELSE At(t)
         /\ \A i \in 1..Len(chunks) : chunks'[i] = chunks[i]
         /\ chunks'[Len(chunks) + 1] = c
         /\ chunks # <<>> => 1 \in 1..Len(chunks) /\ chunks'[1] = chunks[1]
<1>1. /\ chunks' \in Seq(Chunk) /\ Len(chunks) \in Nat /\ Len(chunks') = Len(chunks) + 1
      /\ \A i \in 1..Len(chunks) : chunks'[i] = chunks[i]
      /\ chunks'[Len(chunks) + 1] = c
  OBVIOUS
<1>2. DOMAIN chunks = 1..Len(chunks) /\ DOMAIN chunks' = 1..Len(chunks) \cup {Len(chunks) + 1}
  BY <1>1
<1>3. \A t : At(t) \subseteq 1..Len(chunks)
  BY <1>2 DEF At
<1>4. \A t : At(t)' = {i \in DOMAIN chunks' : chunks'[i].type = t}
  BY DEF At
<1>5. ASSUME NEW t
      PROVE  At(t)' = IF c.type = t THEN At(t) \cup {Len(chunks) + 1} ELSE At(t)
  BY <1>1, <1>2, <1>4 DEF At
<1>6. chunks # <<>> => 1 \in 1..Len(chunks)
  BY <1>1
<1> QED BY <1>1, <1>3, <1>5, <1>6

(* What a last element does to two sets of which one comes before the other. *)
LEMMA Placed ==
  ASSUME NEW n \in Nat, NEW X \in SUBSET (1..n), NEW D \in SUBSET (1..n), \A i \in X, j \in D : i < j
  PROVE  /\ (\A i \in X \cup {n + 1}, j \in D : i < j) <=> D = {}
         /\ \A i \in X, j \in D \cup {n + 1} : i < j
<1>1. \A j \in D : ~(n + 1 < j)
  OBVIOUS
<1>2. \A i \in X : i < n + 1
  OBVIOUS
<1> QED BY <1>1, <1>2

(* A last element is the only one of a set exactly when it joins none.       *)
LEMMA Lone ==
  ASSUME NEW n \in Nat, NEW X \in SUBSET (1..n)
  PROVE  (\A i, j \in X \cup {n + 1} : i = j) <=> X = {}
<1>1. \A i \in X : i # n + 1
  OBVIOUS
<1> QED BY <1>1

(* Whatever comes, a chunk is accepted that no rule forbids.                 *)
LEMMA ChunkRules ==
  ASSUME PngTypeOK, Flags, SoFar, chunks # <<>>, NEW c \in Chunk, chunks' = Append(chunks, c)
  PROVE  SoFar' <=> Accepts(c)
<1> DEFINE n == Len(chunks)
<1>0. chunks \in Seq(Chunk)
  BY DEF PngTypeOK
<1>1. /\ n \in Nat /\ Len(chunks') = n + 1
      /\ \A t : At(t) \subseteq 1..n
      /\ \A t : At(t)' = IF c.type = t THEN At(t) \cup {n + 1} ELSE At(t)
      /\ \A i \in 1..n : chunks'[i] = chunks[i]
      /\ chunks'[n + 1] = c
      /\ chunks'[1] = chunks[1] /\ 1 \in 1..n
  BY <1>0, Grown
<1> HIDE DEF n
<1>2. Color' = header.color /\ Color = header.color /\ header = chunks[1].header /\ header # NoHeader
  BY <1>1 DEF Flags, HeaderFlag, Color
<1>a. ~(n + 1 <= n) /\ ~(n + 1 = n) /\ ~(n + 1 = 1)
  BY <1>1
<1>3. HeaderFirst' <=> c.type # "IHDR"
  BY <1>1, <1>a DEF SoFar, HeaderFirst
<1>4. KnownChunks' <=> c.type \notin {"corrupt", "critical"}
  BY <1>1 DEF SoFar, KnownChunks
<1>5. EndLast' <=> ~iendSeen /\ (c.type = "IEND" => c.n = 0)
  <2>1. iendSeen => ~EndLast'
    <3> SUFFICES ASSUME iendSeen, EndLast' PROVE FALSE
      OBVIOUS
    <3>1. PICK i \in At("IEND") : TRUE
      BY DEF Flags, OtherFlags
    <3>2. i \in At("IEND")' /\ i \in 1..n
      BY <1>1, <3>1
    <3>3. i = n + 1
      BY <1>1, <3>2 DEF EndLast
    <3> QED BY <1>a, <1>1, <3>2, <3>3
  <2>2. ~iendSeen => At("IEND") = {}
    BY DEF Flags, OtherFlags
  <2>3. ~iendSeen => (EndLast' <=> (c.type = "IEND" => c.n = 0))
    BY <1>1, <2>2 DEF EndLast
  <2> QED BY <2>1, <2>3
<1>6. ~iendSeen => (DataTogether' <=> (c.type = "IDAT" => DataOpen))
  <2> SUFFICES ASSUME ~iendSeen PROVE DataTogether' <=> (c.type = "IDAT" => DataOpen)
    OBVIOUS
  <2>1. CASE c.type # "IDAT"
    BY <1>1, <2>1 DEF DataTogether, SoFar
  <2>2. CASE c.type = "IDAT" /\ idat = "none"
    <3>1. At("IDAT")' = {n + 1}
      BY <1>1, <2>2 DEF Flags, DataFlag
    <3>2. (n + 1)..(n + 1) = {n + 1}
      BY <1>1
    <3>3. DataTogether'
      BY <3>1, <3>2 DEF DataTogether
    <3> QED BY <2>2, <3>3 DEF DataOpen
  <2>3. CASE c.type = "IDAT" /\ idat = "open"
    <3> DEFINE D == At("IDAT")
    <3>1. n \in D /\ D \subseteq 1..n /\ At("IDAT")' = D \cup {n + 1} /\ \A i, j \in D : i..j \subseteq D
      BY <1>1, <2>3 DEF Flags, DataFlag, SoFar, DataTogether
    <3> HIDE DEF D
    <3>2. ASSUME NEW i \in D \cup {n + 1}, NEW j \in D \cup {n + 1}, NEW k \in i..j
          PROVE  k \in D \cup {n + 1}
      <4>1. i \in Nat /\ j \in Nat /\ i <= n + 1 /\ j <= n + 1
        BY <1>1, <3>1
      <4>2. k \in Nat /\ i <= k /\ k <= j
        BY <4>1
      <4>3. CASE k = n + 1
        BY <4>3
      <4>4. CASE k # n + 1
        <5>1. k <= n
          BY <1>1, <4>1, <4>2, <4>4
        <5>2. i \in D /\ k \in i..n
          BY <1>1, <3>1, <4>1, <4>2, <5>1
        <5> QED BY <3>1, <5>2
      <4> QED BY <4>3, <4>4
    <3>3. \A i, j \in D \cup {n + 1} : i..j \subseteq D \cup {n + 1}
      BY <3>2
    <3>4. DataTogether'
      BY <3>1, <3>3 DEF DataTogether
    <3> QED BY <2>3, <3>4 DEF DataOpen
  <2>4. CASE c.type = "IDAT" /\ idat = "closed"
    <3>1. PICK i \in At("IDAT") : TRUE
      BY <2>4 DEF Flags, DataFlag
    <3>2. i \in At("IDAT")' /\ n + 1 \in At("IDAT")' /\ n \notin At("IDAT")' /\ n \in i..(n + 1)
      BY <1>1, <1>a, <2>4, <3>1 DEF Flags, DataFlag
    <3>3. ~DataTogether'
      BY <3>2 DEF DataTogether
    <3> QED BY <2>4, <3>3 DEF DataOpen
  <2> QED BY <2>1, <2>2, <2>3, <2>4 DEF PngTypeOK
<1>7. OnePalette' <=> (c.type = "PLTE" => palette = 0)
  <2>1. At("PLTE") \subseteq 1..n /\ (\A i, j \in At("PLTE") : i = j)
    BY <1>1 DEF SoFar, OnePalette
  <2>2. palette = 0 <=> At("PLTE") = {}
    BY DEF Flags, PaletteFlag
  <2>3. CASE c.type = "PLTE"
    <3>1. At("PLTE")' = At("PLTE") \cup {n + 1}
      BY <1>1, <2>3
    <3>2. (\A i, j \in At("PLTE") \cup {n + 1} : i = j) <=> At("PLTE") = {}
      BY <1>1, <2>1, Lone
    <3> QED BY <2>2, <2>3, <3>1, <3>2 DEF OnePalette
  <2>4. CASE c.type # "PLTE"
    <3>1. At("PLTE")' = At("PLTE")
      BY <1>1, <2>4
    <3> QED BY <2>1, <2>4, <3>1 DEF OnePalette
  <2> QED BY <2>3, <2>4
<1>8. OneTransparency' <=> (c.type = "tRNS" => ~transparencySeen)
  <2>1. At("tRNS") \subseteq 1..n /\ (\A i, j \in At("tRNS") : i = j)
    BY <1>1 DEF SoFar, OneTransparency
  <2>2. ~transparencySeen <=> At("tRNS") = {}
    BY DEF Flags, OtherFlags
  <2>3. CASE c.type = "tRNS"
    <3>1. At("tRNS")' = At("tRNS") \cup {n + 1}
      BY <1>1, <2>3
    <3>2. (\A i, j \in At("tRNS") \cup {n + 1} : i = j) <=> At("tRNS") = {}
      BY <1>1, <2>1, Lone
    <3> QED BY <2>2, <2>3, <3>1, <3>2 DEF OneTransparency
  <2>4. CASE c.type # "tRNS"
    <3>1. At("tRNS")' = At("tRNS")
      BY <1>1, <2>4
    <3> QED BY <2>1, <2>4, <3>1 DEF OneTransparency
  <2> QED BY <2>3, <2>4
<1>9. idat = "none" <=> At("IDAT") = {}
  BY DEF Flags, DataFlag
<1>10. PaletteFits' <=>
         (c.type = "PLTE" => header.color \notin {0, 4} /\ (header.color = 3 => c.n <= 2 ^ header.depth))
  BY <1>1, <1>2 DEF PaletteFits, SoFar
<1>11. TransparencyFits' <=> (c.type = "tRNS" => ValidTransparency(c.n))
  <2>1. ASSUME NEW j \in At("tRNS")
        PROVE  \/ Color' = 0 /\ chunks'[j].n = 2
               \/ Color' = 2 /\ chunks'[j].n = 6
               \/ Color' = 3 /\ \E i \in At("PLTE")' : i < j /\ chunks'[j].n <= chunks'[i].n
    BY <1>1, <1>2 DEF SoFar, TransparencyFits
  <2>2. CASE c.type # "tRNS"
    BY <1>1, <2>1, <2>2 DEF TransparencyFits
  <2>3. CASE c.type = "tRNS"
    <3>1. At("PLTE")' = At("PLTE") /\ At("tRNS")' = At("tRNS") \cup {n + 1}
      BY <1>1, <2>3
    <3>2. (\E i \in At("PLTE")' : i < n + 1 /\ c.n <= chunks'[i].n) <=> palette # 0 /\ c.n <= palette
      <4>1. \A i \in At("PLTE") : i < n + 1 /\ chunks'[i].n = palette
        BY <1>1 DEF Flags, PaletteFlag
      <4>2. palette # 0 <=> \E i \in At("PLTE") : TRUE
        BY DEF Flags, PaletteFlag
      <4> QED BY <3>1, <4>1, <4>2
    <3>3. TransparencyFits' <=> \/ Color' = 0 /\ chunks'[n + 1].n = 2
                                \/ Color' = 2 /\ chunks'[n + 1].n = 6
                                \/ /\ Color' = 3
                                   /\ \E i \in At("PLTE")' : i < n + 1 /\ chunks'[n + 1].n <= chunks'[i].n
      BY <2>1, <3>1 DEF TransparencyFits
    <3> QED BY <1>1, <1>2, <2>3, <3>2, <3>3 DEF ValidTransparency
  <2> QED BY <2>2, <2>3
<1>12. SoFar' <=> /\ HeaderFirst' /\ KnownChunks' /\ EndLast' /\ DataTogether'
                  /\ OnePalette' /\ OneTransparency' /\ PaletteBeforeData' /\ TransparencyBeforeData'
                  /\ PaletteFits' /\ TransparencyFits'
  BY DEF SoFar
<1>13. c.type \in {"IHDR", "PLTE", "tRNS", "IDAT", "IEND", "ancillary", "critical", "corrupt"}
  BY DEF Chunk
<1>14. Accepts(c) <=>
         /\ c.type \notin {"IHDR", "corrupt", "critical"}
         /\ ~iendSeen /\ (c.type = "IEND" => c.n = 0)
         /\ c.type = "IDAT" => DataOpen
         /\ c.type = "PLTE" =>
              /\ palette = 0 /\ idat = "none"
              /\ header.color \notin {0, 4} /\ (header.color = 3 => c.n <= 2 ^ header.depth)
         /\ c.type = "tRNS" => ~transparencySeen /\ idat = "none" /\ ValidTransparency(c.n)
  <2> DEFINE InDepth == header.color = 3 => c.n <= 2 ^ header.depth
             Clear == ValidTransparency(c.n)
  <2>1. Accepts(c) <=>
          /\ header = NoHeader => c.type = "IHDR"
          /\ ~iendSeen
          /\ \/ c.type = "IHDR" /\ header = NoHeader /\ ValidHeader(c.header)
             \/ c.type = "PLTE" /\ palette = 0 /\ idat = "none" /\ header.color \notin {0, 4} /\ InDepth
             \/ c.type = "tRNS" /\ ~transparencySeen /\ idat = "none" /\ Clear
             \/ c.type = "IDAT" /\ DataOpen
             \/ c.type = "IEND" /\ c.n = 0
             \/ c.type = "ancillary"
    BY DEF Accepts
  <2> HIDE DEF InDepth, Clear
  <2>2. header # NoHeader
    BY <1>2
  <2>3. Accepts(c) <=>
         /\ c.type \notin {"IHDR", "corrupt", "critical"}
         /\ ~iendSeen /\ (c.type = "IEND" => c.n = 0)
         /\ c.type = "IDAT" => DataOpen
         /\ c.type = "PLTE" => palette = 0 /\ idat = "none" /\ header.color \notin {0, 4} /\ InDepth
         /\ c.type = "tRNS" => ~transparencySeen /\ idat = "none" /\ Clear
    BY <1>13, <2>1, <2>2
  <2> QED BY <2>3 DEF InDepth, Clear
<1>15. PaletteBeforeData' <=> (c.type = "PLTE" => idat = "none")
  <2>1. \A i \in At("PLTE"), j \in At("IDAT") : i < j
    BY DEF SoFar, PaletteBeforeData
  <2>2. At("PLTE") \subseteq 1..n /\ At("IDAT") \subseteq 1..n
    BY <1>1
  <2>3. CASE c.type = "PLTE"
    <3>1. At("PLTE")' = At("PLTE") \cup {n + 1} /\ At("IDAT")' = At("IDAT")
      BY <1>1, <2>3
    <3>2. (\A i \in At("PLTE") \cup {n + 1}, j \in At("IDAT") : i < j) <=> At("IDAT") = {}
      BY <1>1, <2>1, <2>2, Placed
    <3> QED BY <1>9, <2>3, <3>1, <3>2 DEF PaletteBeforeData
  <2>4. CASE c.type = "IDAT"
    <3>1. At("PLTE")' = At("PLTE") /\ At("IDAT")' = At("IDAT") \cup {n + 1}
      BY <1>1, <2>4
    <3>2. \A i \in At("PLTE"), j \in At("IDAT") \cup {n + 1} : i < j
      BY <1>1, <2>1, <2>2, Placed
    <3> QED BY <2>4, <3>1, <3>2 DEF PaletteBeforeData
  <2>5. CASE c.type \notin {"PLTE", "IDAT"}
    <3>1. At("PLTE")' = At("PLTE") /\ At("IDAT")' = At("IDAT")
      BY <1>1, <2>5
    <3> QED BY <2>1, <2>5, <3>1 DEF PaletteBeforeData
  <2> QED BY <2>3, <2>4, <2>5
<1>16. TransparencyBeforeData' <=> (c.type = "tRNS" => idat = "none")
  <2>1. \A i \in At("tRNS"), j \in At("IDAT") : i < j
    BY DEF SoFar, TransparencyBeforeData
  <2>2. At("tRNS") \subseteq 1..n /\ At("IDAT") \subseteq 1..n
    BY <1>1
  <2>3. CASE c.type = "tRNS"
    <3>1. At("tRNS")' = At("tRNS") \cup {n + 1} /\ At("IDAT")' = At("IDAT")
      BY <1>1, <2>3
    <3>2. (\A i \in At("tRNS") \cup {n + 1}, j \in At("IDAT") : i < j) <=> At("IDAT") = {}
      BY <1>1, <2>1, <2>2, Placed
    <3> QED BY <1>9, <2>3, <3>1, <3>2 DEF TransparencyBeforeData
  <2>4. CASE c.type = "IDAT"
    <3>1. At("tRNS")' = At("tRNS") /\ At("IDAT")' = At("IDAT") \cup {n + 1}
      BY <1>1, <2>4
    <3>2. \A i \in At("tRNS"), j \in At("IDAT") \cup {n + 1} : i < j
      BY <1>1, <2>1, <2>2, Placed
    <3> QED BY <2>4, <3>1, <3>2 DEF TransparencyBeforeData
  <2>5. CASE c.type \notin {"tRNS", "IDAT"}
    <3>1. At("tRNS")' = At("tRNS") /\ At("IDAT")' = At("IDAT")
      BY <1>1, <2>5
    <3> QED BY <2>1, <2>5, <3>1 DEF TransparencyBeforeData
  <2> QED BY <2>3, <2>4, <2>5
<1> QED BY <1>3, <1>4, <1>5, <1>6, <1>7, <1>8, <1>10, <1>11, <1>12, <1>14, <1>15, <1>16

(* The first chunk is a header, or it is refused.                            *)
LEMMA FirstChunk ==
  ASSUME PngTypeOK, Empty, chunks = <<>>, NEW c \in Chunk, ReadChunk(c)
  PROVE  (Accepts(c) => Flags') /\ (SoFar' <=> Accepts(c))
<1>0. Len(chunks) = 0 /\ chunks \in Seq(Chunk)
  BY DEF PngTypeOK
<1>1. chunks' = Append(chunks, c)
  BY DEF ReadChunk
<1>2. Len(chunks') = 1 /\ chunks'[1] = c /\ \A t : At(t) = {} /\ At(t)' = IF c.type = t THEN {1} ELSE {}
  <2>1. /\ Len(chunks') = 1 /\ chunks'[1] = c
        /\ \A t : At(t) \subseteq 1..0 /\ At(t)' = IF c.type = t THEN At(t) \cup {1} ELSE At(t)
    BY <1>0, <1>1, Grown
  <2>2. 1..0 = {}
    OBVIOUS
  <2> QED BY <2>1, <2>2
<1>3. Accepts(c) <=> c.type = "IHDR" /\ ValidHeader(c.header)
  BY DEF Accepts, Empty
<1>4. HeaderFirst' <=> c.type = "IHDR" /\ ValidHeader(c.header)
  <2>1. ValidHeader(chunks[1].header)' <=> ValidHeader(c.header)
    BY <1>2 DEF ValidHeader
  <2> QED BY <1>2, <2>1 DEF HeaderFirst
<1>5. ASSUME c.type = "IHDR" /\ ValidHeader(c.header)
      PROVE  SoFar' /\ Flags'
  <2>1. At("IHDR")' = {1} /\ At("IDAT")' = {} /\ At("IEND")' = {} /\ At("PLTE")' = {} /\ At("tRNS")' = {}
    BY <1>2, <1>5
  <2>2. At("corrupt")' = {} /\ At("critical")' = {}
    BY <1>2, <1>5
  <2>3. SoFar'
    BY <1>4, <1>5, <2>1, <2>2
       DEF SoFar, KnownChunks, EndLast, DataTogether, OnePalette, OneTransparency, PaletteBeforeData,
           TransparencyBeforeData, PaletteFits, TransparencyFits
  <2>4. header' = c.header /\ palette' = 0 /\ idat' = "none" /\ ~transparencySeen' /\ ~iendSeen'
    BY <1>3, <1>5 DEF ReadChunk, Empty
  <2>5. c.header # NoHeader
    BY <1>5 DEF ValidHeader, NoHeader
  <2>6. HeaderFlag'
    BY <1>2, <2>4, <2>5 DEF HeaderFlag, NoHeader
  <2>7. PaletteFlag' /\ DataFlag' /\ OtherFlags'
    BY <2>1, <2>4 DEF PaletteFlag, DataFlag, OtherFlags
  <2> QED BY <2>3, <2>6, <2>7 DEF Flags
<1> QED BY <1>3, <1>4, <1>5 DEF SoFar

(* The flags keep telling the chunks as one more is accepted.                *)
LEMMA AcceptedKeepsFlags ==
  ASSUME PngTypeOK, Flags, chunks # <<>>, NEW c \in Chunk, ReadChunk(c), Accepts(c)
  PROVE  Flags'
<1> DEFINE n == Len(chunks)
<1>0. chunks \in Seq(Chunk) /\ chunks' = Append(chunks, c)
  BY DEF PngTypeOK, ReadChunk
<1>1. /\ n \in Nat /\ Len(chunks') = n + 1
      /\ \A t : At(t) \subseteq 1..n
      /\ \A t : At(t)' = IF c.type = t THEN At(t) \cup {n + 1} ELSE At(t)
      /\ \A i \in 1..n : chunks'[i] = chunks[i]
      /\ chunks'[n + 1] = c
      /\ chunks'[1] = chunks[1]
  BY <1>0, Grown
<1> HIDE DEF n
<1>2. n + 1 \notin 1..n
  BY <1>1
<1>3. header # NoHeader /\ ~iendSeen /\ c.type # "IHDR"
  BY DEF Flags, HeaderFlag, Accepts
<1>4. /\ header' = header
      /\ palette' = IF c.type = "PLTE" THEN c.n ELSE palette
      /\ transparencySeen' = (transparencySeen \/ c.type = "tRNS")
      /\ idat' = IF c.type = "IDAT" THEN "open"
                 ELSE IF idat = "open" /\ c.type # "IEND" THEN "closed" ELSE idat
      /\ iendSeen' = (c.type = "IEND")
  BY <1>3 DEF ReadChunk
<1>5. HeaderFlag'
  BY <1>1, <1>3, <1>4 DEF Flags, HeaderFlag, NoHeader
<1>6. PaletteFlag'
  <2>1. CASE c.type = "PLTE"
    <3>1. palette = 0 /\ At("PLTE")' = {n + 1}
      BY <1>1, <2>1 DEF Accepts, Flags, PaletteFlag
    <3>2. c.n # 0
      BY <2>1 DEF Chunk
    <3> QED BY <1>1, <1>4, <2>1, <3>1, <3>2 DEF PaletteFlag
  <2>2. CASE c.type # "PLTE"
    BY <1>1, <1>4, <2>2 DEF Flags, PaletteFlag
  <2> QED BY <2>1, <2>2
<1>7. DataFlag'
  <2>1. idat = "none" <=> At("IDAT") = {}
    BY DEF Flags, DataFlag
  <2>2. CASE c.type = "IDAT"
    <3>1. n + 1 \in At("IDAT")' /\ idat' = "open"
      BY <1>1, <1>4, <2>2
    <3> QED BY <1>1, <3>1 DEF DataFlag
  <2>3. CASE c.type # "IDAT"
    <3>1. At("IDAT")' = At("IDAT") /\ n + 1 \notin At("IDAT")
      BY <1>1, <1>2, <2>3
    <3>2. idat' = IF idat = "open" /\ c.type # "IEND" THEN "closed" ELSE idat
      BY <1>4, <2>3
    <3>3. idat' = "none" <=> At("IDAT")' = {}
      BY <2>1, <3>1, <3>2
    <3>4. idat' = "open" => iendSeen'
      BY <1>4, <3>2
    <3> QED BY <1>1, <3>1, <3>3, <3>4 DEF DataFlag
  <2> QED BY <2>2, <2>3
<1>8. OtherFlags'
  <2>1. transparencySeen' <=> At("tRNS")' # {}
    BY <1>1, <1>4 DEF Flags, OtherFlags
  <2>2. iendSeen' <=> At("IEND")' # {}
    BY <1>1, <1>3, <1>4 DEF Flags, OtherFlags
  <2> QED BY <2>1, <2>2 DEF OtherFlags
<1> QED BY <1>5, <1>6, <1>7, <1>8 DEF Flags

(* Reading a chunk keeps the types.                                          *)
LEMMA ReadKeepsType ==
  ASSUME PngTypeOK, NEW c \in Chunk, ReadChunk(c)
  PROVE  PngTypeOK'
<1>1. chunks' \in Seq(Chunk)
  BY DEF PngTypeOK, ReadChunk
<1>2. verdict' \in {"reading", "refused"}
  BY DEF ReadChunk
<1>3. c.type = "IHDR" => HeaderOK(c.header)
  BY DEF Chunk, HeaderOK
<1>4. c.type = "PLTE" => c.n \in 0..3
  BY DEF Chunk
<1>5. HeaderOK(header')
  BY <1>3 DEF PngTypeOK, ReadChunk, reader
<1>6. palette' \in 0..3
  BY <1>4 DEF PngTypeOK, ReadChunk, reader
<1>7. idat' \in {"none", "open", "closed"}
  BY DEF PngTypeOK, ReadChunk, reader
<1>8. transparencySeen' \in BOOLEAN /\ iendSeen' \in BOOLEAN
  BY DEF PngTypeOK, ReadChunk, reader
<1> QED BY <1>1, <1>2, <1>5, <1>6, <1>7, <1>8 DEF PngTypeOK, HeaderOK

(* Every chunk that is read keeps the invariant.                             *)
LEMMA ReadKeepsReader ==
  ASSUME ReaderInv, NEW c \in Chunk, ReadChunk(c)
  PROVE  ReaderInv'
<1>0. PngTypeOK /\ PngTypeOK' /\ verdict = "reading" /\ chunks' = Append(chunks, c) /\ chunks \in Seq(Chunk)
  BY ReadKeepsType DEF ReaderInv, ReadChunk, PngTypeOK
<1>1. (Accepts(c) => Flags') /\ (SoFar' <=> Accepts(c))
  <2>1. CASE chunks = <<>>
    BY <1>0, <2>1, FirstChunk DEF ReaderInv
  <2>2. CASE chunks # <<>>
    <3>1. Flags /\ SoFar
      BY <1>0, <2>2 DEF ReaderInv, ReadsExactlyPng
    <3> QED BY <1>0, <2>2, <3>1, ChunkRules, AcceptedKeepsFlags
  <2> QED BY <2>1, <2>2
<1>2. chunks' # <<>>
  BY <1>0
<1>3. verdict' = IF Accepts(c) THEN "reading" ELSE "refused"
  BY <1>0 DEF ReadChunk
<1> QED BY <1>0, <1>1, <1>2, <1>3 DEF ReaderInv, ReadsExactlyPng

(* A file that ends is whole exactly when it is a PNG.                       *)
LEMMA WholeIsWellFormed ==
  ASSUME Flags, SoFar
  PROVE  Whole <=> WellFormed
<1>1. iendSeen <=> At("IEND") # {}
  BY DEF Flags, OtherFlags
<1>2. idat # "none" <=> At("IDAT") # {}
  BY DEF Flags, DataFlag
<1>3. palette # 0 <=> At("PLTE") # {}
  BY DEF Flags, PaletteFlag
<1>4. Color = header.color
  BY DEF Flags, HeaderFlag, Color
<1> QED BY <1>1, <1>2, <1>3, <1>4 DEF Whole, WellFormed

(* The rules speak of the chunks only, the flags of both.                    *)
LEMMA SameFile ==
  ASSUME UNCHANGED <<chunks, reader>>
  PROVE  SoFar' = SoFar /\ WellFormed' = WellFormed /\ Flags' = Flags
<1>1. UNCHANGED <<chunks, header, palette, transparencySeen, idat, iendSeen>>
  BY DEF reader
<1>2. SoFar' = SoFar
  BY <1>1 DEF SoFar, HeaderFirst, ValidHeader, KnownChunks, EndLast, DataTogether, OnePalette,
     OneTransparency,
              PaletteBeforeData, TransparencyBeforeData, PaletteFits, TransparencyFits, Color, At
<1>3. WellFormed' = WellFormed
  BY <1>1, <1>2 DEF WellFormed, Color, At
<1>4. Flags' = Flags
  BY <1>1 DEF Flags, HeaderFlag, PaletteFlag, DataFlag, OtherFlags, At, NoHeader
<1> QED BY <1>2, <1>3, <1>4

(* The end of the file keeps the invariant.                                  *)
LEMMA InflateKeepsReader ==
  ASSUME ReaderInv, Inflate
  PROVE  ReaderInv'
<1>1. UNCHANGED <<chunks, reader>> /\ verdict = "reading" /\ chunks # <<>> /\ PngTypeOK
  BY DEF Inflate, ReaderInv
<1>2. Flags /\ SoFar /\ Flags' /\ SoFar' /\ WellFormed' = WellFormed /\ (Whole <=> WellFormed)
  BY <1>1, SameFile, WholeIsWellFormed DEF ReaderInv, ReadsExactlyPng
<1>3. ScanlineBytes(header)' = ScanlineBytes(header)
  BY <1>1 DEF reader, ScanlineBytes, Passes, ScanlinesOf, BitsPerPixel, Adam7
<1>4. PngTypeOK'
  BY <1>1, <1>3 DEF Inflate, PngTypeOK, reader, HeaderOK
<1>5. ReadsExactlyPng'
  BY <1>1, <1>2 DEF Inflate, ReadsExactlyPng
<1> QED BY <1>1, <1>2, <1>4, <1>5 DEF ReaderInv, reader

(* What leaves the chunks alone keeps the invariant.                         *)
LEMMA RestKeepsReader ==
  ASSUME ReaderInv, UNCHANGED <<chunks, reader, verdict, decoded>>
  PROVE  ReaderInv'
<1>1. SoFar' = SoFar /\ WellFormed' = WellFormed /\ Flags' = Flags
  BY SameFile
<1>2. ScanlineBytes(header)' = ScanlineBytes(header)
  BY DEF reader, ScanlineBytes, Passes, ScanlinesOf, BitsPerPixel, Adam7
<1>3. PngTypeOK' /\ ReadsExactlyPng'
  BY <1>1, <1>2 DEF ReaderInv, PngTypeOK, reader, HeaderOK, ReadsExactlyPng
<1> QED BY <1>1, <1>3 DEF ReaderInv, Empty, reader, NoHeader

(* For any headers and number of chunks, PngImage keeps the reader's         *)
(* invariant: its flags tell what the chunks so far are, and its verdict     *)
(* what the rules say of them (validatePng).                                 *)
THEOREM ReaderInvariant == PngAssumption => (PngSpec => []ReaderInv)
<1> SUFFICES ASSUME PngAssumption PROVE PngSpec => []ReaderInv
  OBVIOUS
<1>1. PngInit => ReaderInv
  <2>1. NoHeader \in [width : Nat, height : Nat, color : Nat, depth : Nat, adam7 : BOOLEAN]
    BY DEF NoHeader
  <2> SUFFICES ASSUME PngInit PROVE ReaderInv
    OBVIOUS
  <2>2. chunks = <<>> /\ chunks \in Seq(Chunk) /\ verdict = "reading"
    BY DEF PngInit
  <2>3. header = NoHeader /\ palette = 0 /\ idat = "none" /\ transparencySeen = FALSE /\ iendSeen = FALSE
    BY DEF PngInit
  <2>a. HeaderOK(header)
    BY <2>1, <2>3 DEF HeaderOK
  <2>b. palette \in 0..3 /\ idat \in {"none", "open", "closed"}
    BY <2>3
  <2>c. transparencySeen \in BOOLEAN /\ iendSeen \in BOOLEAN
    BY <2>3
  <2>4. PngTypeOK
    BY <2>2, <2>a, <2>b, <2>c DEF PngTypeOK
  <2>5. Empty
    BY <2>3 DEF Empty
  <2> QED BY <2>2, <2>4, <2>5 DEF ReaderInv, ReadsExactlyPng
<1>2. ReaderInv /\ [PngNext]_pngVars => ReaderInv'
  <2> SUFFICES ASSUME ReaderInv, [PngNext]_pngVars PROVE ReaderInv'
    OBVIOUS
  <2>1. ASSUME NEW c \in Chunks, ReadChunk(c) PROVE ReaderInv'
    <3>1. HeaderOK(header)
      BY DEF ReaderInv, PngTypeOK
    <3>2. c \in Chunk
      BY <3>1 DEF Chunks, Chunk, PngAssumption, HeaderOK
    <3> QED BY <2>1, <3>2, ReadKeepsReader
  <2>2. CASE Inflate
    BY <2>2, InflateKeepsReader
  <2>3. ASSUME NEW filter \in 0..4, NEW raw \in Raws, DecodeRow(filter, raw) PROVE ReaderInv'
    BY <2>3, RestKeepsReader DEF DecodeRow
  <2>4. CASE UNCHANGED pngVars
    BY <2>4, RestKeepsReader DEF pngVars
  <2> QED BY <2>1, <2>2, <2>3, <2>4 DEF PngNext
<1> QED BY <1>1, <1>2, PTL DEF PngSpec

(* The raster of a header has the scanlines of its pixels.                   *)
LEMMA RasterBytes ==
  ASSUME NEW h, HeaderOK(h)
  PROVE  /\ ScanlineBytes(h) = SumFunction([p \in Passes(h) |-> PassBytes(h, p)])
         /\ \A px \in (0..h.width - 1) \X (0..h.height - 1) :
              Cardinality({p \in Passes(h) : px \in PassPixels(h, p)}) = 1
<1>0. h.width \in Nat /\ h.height \in Nat /\ h.color \in Nat /\ h.depth \in Nat /\ h.adam7 \in BOOLEAN
  BY DEF HeaderOK
<1>1. BitsPerPixel(h) \in Nat
  <2>1. Channels(h.color) \in {1, 2, 3, 4}
    BY <1>0 DEF Channels
  <2> QED BY <1>0, <2>1 DEF BitsPerPixel
<1>2. ASSUME NEW p \in Passes(h)
      PROVE  PassBytes(h, p) = ScanlinesOf(h, p)
  <2>1. p \in Adam7 \cup {<<0, 0, 1, 1>>}
    BY DEF Passes
  <2>2. p[1] \in Nat /\ p[2] \in Nat /\ p[3] \in {1, 2, 4, 8} /\ p[4] \in {1, 2, 4, 8}
    BY <2>1 DEF Adam7
  <2> QED BY <1>0, <1>1, <2>2, PassIsWhole
<1>3. [p \in Passes(h) |-> ScanlinesOf(h, p)] = [p \in Passes(h) |-> PassBytes(h, p)]
  BY <1>2
<1>4. ASSUME NEW px \in (0..h.width - 1) \X (0..h.height - 1)
      PROVE  Cardinality({p \in Passes(h) : px \in PassPixels(h, p)}) = 1
  <2>1. px = <<px[1], px[2]>> /\ px[1] \in 0..h.width - 1 /\ px[2] \in 0..h.height - 1
    OBVIOUS
  <2>2. Cardinality({p \in Passes(h) : <<px[1], px[2]>> \in PassPixels(h, p)}) = 1
    BY <1>0, <2>1, OnePass
  <2> QED BY <2>1, <2>2
<1> QED BY <1>3, <1>4 DEF ScanlineBytes

(* For any headers, limit of bytes and number of chunks, PngImage refuses a  *)
(* file at the first chunk that no PNG has there and at no other, lets it    *)
(* end only when the whole file is a PNG, and inspects a raster only if it   *)
(* has the scanlines of its pixels, each pixel once (validatePng).           *)
THEOREM PngReadWhole == PngAssumption => (PngSpec => []PngIsReadWhole)
<1>1. ReaderInv => PngIsReadWhole
  <2> SUFFICES ASSUME ReaderInv PROVE PngIsReadWhole
    OBVIOUS
  <2>1. verdict = "rows" => decoded = ScanlineBytes(header)
    BY DEF ReaderInv, PngTypeOK
  <2>2. HeaderOK(header)
    BY DEF ReaderInv, PngTypeOK
  <2>3. RasterIsWhole
    BY <2>1, <2>2, RasterBytes DEF RasterIsWhole
  <2> QED BY <2>3 DEF ReaderInv, PngIsReadWhole
<1> QED BY <1>1, ReaderInvariant, PTL

-----------------------------------------------------------------------------
(* Scanlines.                                                                *)

Byte == 0..255

(* A byte is a natural number.                                               *)
LEMMA ByteIsNat == \A b \in Byte : b \in Nat /\ b \in 0..255
BY DEF Byte

(* Subtracting what was added gives the byte again, modulo 256.              *)
LEMMA Undone ==
  ASSUME NEW a \in Byte, NEW g \in Nat
  PROVE  a = (((a + g) % 256) - g) % 256
BY DEF Byte

(* The predictor of a byte is a natural number.                              *)
LEMMA PredictorType ==
  ASSUME NEW filter \in 0..4, NEW left \in Byte, NEW up \in Byte, NEW upperLeft \in Byte
  PROVE  Predictor(filter, left, up, upperLeft) \in Nat
<1>1. PaethPredictor(left, up, upperLeft) \in Byte
  BY DEF PaethPredictor
<1>2. (left + up) \div 2 \in Nat
  BY DEF Byte
<1> QED BY <1>1, <1>2 DEF Predictor, Byte

(* The predictor of the fourth filter is the nearest neighbour, the first of *)
(* those that are as near.                                                   *)
LEMMA PaethIsNearest ==
  ASSUME NEW left \in Nat, NEW up \in Nat, NEW upperLeft \in Nat
  PROVE  PaethPredictor(left, up, upperLeft) = Nearest(left, up, upperLeft)
<1> DEFINE p == left + up - upperLeft
           near == <<left, up, upperLeft>>
           off(i) == Distance(p, near[i])
           best == {i \in 1..3 : \A j \in 1..3 : off(i) <= off(j)}
           first == CHOOSE i \in best : \A j \in best : i <= j
           l == Distance(p, left)
           u == Distance(p, up)
           ul == Distance(p, upperLeft)
<1>1. Nearest(left, up, upperLeft) = near[first]
  BY DEF Nearest
<1>2. l \in Int /\ u \in Int /\ ul \in Int
  BY DEF Distance
<1>3. off(1) = l /\ off(2) = u /\ off(3) = ul
  OBVIOUS
<1>4. PaethPredictor(left, up, upperLeft) =
        IF l <= u /\ l <= ul THEN left ELSE IF u <= ul THEN up ELSE upperLeft
  BY DEF PaethPredictor
<1>5. 1..3 = {1, 2, 3}
  OBVIOUS
<1> HIDE DEF l, u, ul, off
<1>6. /\ 1 \in best <=> l <= u /\ l <= ul
      /\ 2 \in best <=> u <= l /\ u <= ul
      /\ 3 \in best <=> ul <= l /\ ul <= u
  BY <1>2, <1>3, <1>5
<1>7. best \subseteq {1, 2, 3}
  BY <1>5
<1> HIDE DEF best
<1>a. ASSUME NEW k \in best, \A j \in best : k <= j
      PROVE  first = k
  <2>1. first \in best /\ \A j \in best : first <= j
    BY <1>a
  <2> HIDE DEF first
  <2>2. first <= k /\ k <= first /\ first \in Int /\ k \in Int
    BY <1>7, <1>a, <2>1
  <2> QED BY <2>2
<1> HIDE DEF first
<1>b. near[1] = left /\ near[2] = up /\ near[3] = upperLeft
  OBVIOUS
<1> HIDE DEF near
<1>8. CASE l <= u /\ l <= ul
  <2>1. \A j \in best : 1 <= j
    BY <1>7
  <2>2. first = 1
    BY <1>6, <1>8, <1>a, <2>1
  <2> QED BY <1>1, <1>4, <1>8, <1>b, <2>2
<1>9. CASE ~(l <= u /\ l <= ul) /\ u <= ul
  <2>1. 1 \notin best /\ 2 \in best
    BY <1>2, <1>6, <1>9
  <2>a. \A j \in best : 2 <= j
    BY <1>7, <2>1
  <2>2. first = 2
    BY <1>a, <2>1, <2>a
  <2> QED BY <1>1, <1>4, <1>9, <1>b, <2>2
<1>10. CASE ~(l <= u /\ l <= ul) /\ ~(u <= ul)
  <2>1. 1 \notin best /\ 2 \notin best /\ 3 \in best
    BY <1>2, <1>6, <1>10
  <2>a. \A j \in best : 3 <= j
    BY <1>7, <2>1
  <2>2. first = 3
    BY <1>a, <2>1, <2>a
  <2> QED BY <1>1, <1>4, <1>10, <1>b, <2>2
<1> QED BY <1>8, <1>9, <1>10

(* The byte that UnfilterRow puts at i, from the row so far.                 *)
ByteOf(out, i, filter, raw, previous) ==
  (raw[i] + Predictor(filter, IF i = 1 THEN 0 ELSE out[i - 1],
                      ByteAt(previous, i), ByteAt(previous, i - 1))) % 256

(* A byte of a row, or zero beyond its ends.                                 *)
LEMMA ByteAtType ==
  ASSUME NEW out \in Seq(Byte), NEW i \in Int
  PROVE  ByteAt(out, i) \in Byte
<1>1. 0 \in Byte
  BY DEF Byte
<1>2. i \in DOMAIN out => out[i] \in Byte
  OBVIOUS
<1> QED BY <1>1, <1>2 DEF ByteAt

(* What UnfilterRow puts is a byte.                                          *)
LEMMA ByteOfType ==
  ASSUME NEW filter \in 0..4, NEW raw \in Seq(Byte), NEW previous \in Seq(Byte), NEW i \in 1..Len(raw),
         NEW out, i # 1 => out[i - 1] \in Byte
  PROVE  ByteOf(out, i, filter, raw, previous) \in Byte
<1>1. i \in Int /\ i - 1 \in Int
  OBVIOUS
<1>2. ByteAt(previous, i) \in Byte /\ ByteAt(previous, i - 1) \in Byte
  BY <1>1, ByteAtType
<1>3. (IF i = 1 THEN 0 ELSE out[i - 1]) \in Byte
  BY DEF Byte
<1>4. Predictor(filter, IF i = 1 THEN 0 ELSE out[i - 1], ByteAt(previous, i), ByteAt(previous, i - 1)) \in Nat
  BY <1>2, <1>3, PredictorType
<1>a. raw[i] \in Byte
  OBVIOUS
<1>5. raw[i] \in Nat
  BY <1>a, ByteIsNat
<1>6. \A a, b \in Nat : (a + b) % 256 \in 0..255
  OBVIOUS
<1> QED BY <1>4, <1>5, <1>6 DEF ByteOf, Byte

(* The row that UnfilterRow is defined by exists: a scanline whose first     *)
(* bytes have none would have a shortest such beginning.                     *)
LEMMA RowExists ==
  ASSUME NEW filter \in 0..4, NEW raw \in Seq(Byte), NEW previous \in Seq(Byte)
  PROVE  \E out \in [1..Len(raw) -> Byte] :
           \A i \in 1..Len(raw) : out[i] = ByteOf(out, i, filter, raw, previous)
<1> DEFINE D == 1..Len(raw)
           Upto(n, out) == \A i \in D : i <= n => out[i] = ByteOf(out, i, filter, raw, previous)
           Bad == {n \in Nat : n <= Len(raw) /\ ~\E out \in [D -> Byte] : Upto(n, out)}
<1>0. Len(raw) \in Nat
  OBVIOUS
<1>1. Bad = {}
  <2> SUFFICES ASSUME Bad # {} PROVE FALSE
    OBVIOUS
  <2>1. PICK n \in Bad : \A m \in Bad : n <= m
    BY LeastExists
  <2>0. n \in Nat /\ n <= Len(raw)
    BY <2>1
  <2>2. CASE n = 0
    <3> DEFINE out == [i \in D |-> 0]
    <3>1. out \in [D -> Byte] /\ Upto(n, out)
      BY <1>0, <2>2 DEF Byte
    <3> QED BY <2>1, <3>1
  <2>3. CASE n # 0
    <3>0. n - 1 \in Nat /\ ~(n <= n - 1) /\ n \in D /\ n - 1 <= Len(raw) /\ (n # 1 => n - 1 \in D)
      BY <1>0, <2>0, <2>3
    <3>1. n - 1 \notin Bad
      <4> HIDE DEF Bad
      <4> QED BY <2>1, <3>0
    <3>2. PICK out \in [D -> Byte] : Upto(n - 1, out)
      BY <3>0, <3>1
    <3> DEFINE v == ByteOf(out, n, filter, raw, previous)
               h == [out EXCEPT ![n] = v]
    <3>3. v \in Byte
      <4>1. n # 1 => out[n - 1] \in Byte
        BY <3>0, <3>2
      <4> QED BY <3>0, <4>1, ByteOfType
    <3>4. h \in [D -> Byte] /\ h[n] = v /\ \A i \in D : i # n => h[i] = out[i]
      BY <3>0, <3>2, <3>3
    <3> HIDE DEF h
    <3>5. ASSUME NEW i \in D, i <= n
          PROVE  h[i] = ByteOf(h, i, filter, raw, previous)
      <4>0. i # 1 => i - 1 \in D /\ i - 1 # n
        BY <1>0, <2>0, <3>5
      <4>1. i # 1 => h[i - 1] = out[i - 1]
        BY <3>4, <4>0
      <4>2. ByteOf(h, i, filter, raw, previous) = ByteOf(out, i, filter, raw, previous)
        BY <4>1 DEF ByteOf
      <4>3. CASE i = n
        BY <3>4, <4>2, <4>3
      <4>4. CASE i # n
        <5>1. i <= n - 1
          BY <2>0, <3>5, <4>4
        <5> QED BY <3>2, <3>4, <4>2, <4>4, <5>1
      <4> QED BY <4>3, <4>4
    <3> HIDE DEF D
    <3>6. Upto(n, h)
      BY <3>5
    <3> QED BY <2>1, <3>4, <3>6
  <2> QED BY <2>2, <2>3
<1>2. Len(raw) \in Nat /\ Len(raw) <= Len(raw) /\ \A i \in D : i <= Len(raw)
  BY <1>0
<1>3. PICK out \in [D -> Byte] : Upto(Len(raw), out)
  BY <1>1, <1>2
<1> QED BY <1>2, <1>3

(* What UnfilterRow returns.                                                 *)
LEMMA UnfilterRowIs ==
  ASSUME NEW filter \in 0..4, NEW raw \in Seq(Byte), NEW previous \in Seq(Byte)
  PROVE  /\ UnfilterRow(filter, raw, previous) \in Seq(Byte)
         /\ DOMAIN UnfilterRow(filter, raw, previous) = DOMAIN raw
         /\ \A i \in DOMAIN raw :
              UnfilterRow(filter, raw, previous)[i] =
                ByteOf(UnfilterRow(filter, raw, previous), i, filter, raw, previous)
<1> DEFINE r == UnfilterRow(filter, raw, previous)
           Body(out) == [i \in DOMAIN raw |->
             (raw[i] + Predictor(filter, IF i = 1 THEN 0 ELSE out[i - 1],
                                 ByteAt(previous, i), ByteAt(previous, i - 1))) % 256]
<1>0. DOMAIN raw = 1..Len(raw) /\ Len(raw) \in Nat
  OBVIOUS
<1>1. r = CHOOSE out : out = Body(out)
  BY DEF UnfilterRow
<1>2. PICK out \in [1..Len(raw) -> Byte] :
        \A i \in 1..Len(raw) : out[i] = ByteOf(out, i, filter, raw, previous)
  BY RowExists
<1>3. out = Body(out)
  BY <1>0, <1>2 DEF ByteOf
<1> HIDE DEF Body
<1>4. r = Body(r)
  BY <1>1, <1>3
<1> USE DEF Body
<1> HIDE DEF r
<1>5. DOMAIN r = DOMAIN raw /\ \A i \in DOMAIN raw : r[i] = ByteOf(r, i, filter, raw, previous)
  BY <1>4 DEF ByteOf
<1> DEFINE Bad == {i \in 1..Len(raw) : r[i] \notin Byte}
<1>6. Bad = {}
  <2> SUFFICES ASSUME Bad # {} PROVE FALSE
    OBVIOUS
  <2>0. Bad \subseteq Nat
    OBVIOUS
  <2>1. PICK n \in Bad : \A m \in Bad : n <= m
    <3> HIDE DEF Bad
    <3> QED BY <2>0, LeastExists
  <2>2. n \in 1..Len(raw) /\ r[n] \notin Byte
    BY <2>1
  <2>3. n # 1 => n - 1 \in 1..Len(raw) /\ ~(n <= n - 1)
    BY <1>0, <2>2
  <2>4. n # 1 => r[n - 1] \in Byte
    BY <2>1, <2>3
  <2>5. ByteOf(r, n, filter, raw, previous) \in Byte
    BY <2>2, <2>4, ByteOfType
  <2> QED BY <1>0, <1>5, <2>2, <2>5
<1>7. \A i \in 1..Len(raw) : r[i] \in Byte
  BY <1>6
<1> HIDE DEF Bad
<1>8. r = [i \in 1..Len(raw) |-> r[i]]
  BY <1>0, <1>4
<1>9. r \in Seq(Byte)
  BY <1>0, <1>7, <1>8
<1> QED BY <1>5, <1>9 DEF r

(* The line decoded last, and that filtering it again gives what was read.   *)
LineInv ==
  /\ line \in [number : Nat, filter : 0..4, raw : Seq(Byte), row : Seq(Byte), previous : Seq(Byte)]
  /\ RowUndoesFilter

(* Decoding a scanline keeps the invariant.                                  *)
LEMMA DecodeKeepsLine ==
  ASSUME LineInv, NEW filter \in 0..4, NEW raw \in Seq(Byte), DecodeRow(filter, raw)
  PROVE  LineInv'
<1> DEFINE r == UnfilterRow(filter, raw, line.row)
<1>0. line.number \in Nat /\ line.row \in Seq(Byte)
  BY DEF LineInv
<1>1. line' = [number |-> line.number + 1, filter |-> filter, raw |-> raw, row |-> r, previous |-> line.row]
  BY DEF DecodeRow
<1>2. /\ r \in Seq(Byte) /\ DOMAIN r = DOMAIN raw
      /\ \A i \in DOMAIN raw : r[i] = ByteOf(r, i, filter, raw, line.row)
  BY <1>0, UnfilterRowIs
<1> HIDE DEF r
<1>3. /\ line' \in [number : Nat, filter : 0..4, raw : Seq(Byte), row : Seq(Byte), previous : Seq(Byte)]
      /\ line'.raw = raw /\ line'.row = r /\ line'.previous = line.row /\ line'.filter = filter
  BY <1>0, <1>1, <1>2
<1>4. ASSUME NEW i \in DOMAIN raw, NEW left, left = ByteAt(r, i - 1), NEW up, up = ByteAt(line.row, i),
             NEW upperLeft, upperLeft = ByteAt(line.row, i - 1), NEW guess,
             guess = CASE filter = 0 -> 0
                       [] filter = 1 -> left
                       [] filter = 2 -> up
                       [] filter = 3 -> (left + up) \div 2
                       [] filter = 4 -> Nearest(left, up, upperLeft)
      PROVE  raw[i] = (r[i] - guess) % 256
  <2>0. i \in 1..Len(raw) /\ i \in Int /\ i - 1 \in Int /\ DOMAIN r = 1..Len(raw) /\ Len(raw) \in Nat
    BY <1>2
  <2>1. left \in Byte /\ up \in Byte /\ upperLeft \in Byte
    BY <1>0, <1>2, <1>4, <2>0, ByteAtType
  <2>2. left = IF i = 1 THEN 0 ELSE r[i - 1]
    BY <1>4, <2>0 DEF ByteAt
  <2>3. left \in Nat /\ up \in Nat /\ upperLeft \in Nat
    BY <2>1 DEF Byte
  <2>4. guess = Predictor(filter, left, up, upperLeft)
    BY <1>4, <2>3, PaethIsNearest DEF Predictor
  <2>5. guess \in Nat
    BY <2>1, <2>4, PredictorType
  <2>6. r[i] = (raw[i] + guess) % 256
    BY <1>2, <1>4, <2>2, <2>4 DEF ByteOf
  <2>a. raw[i] \in Byte
    BY <2>0
  <2> DEFINE a == raw[i]
  <2> HIDE DEF a
  <2>7. a \in Byte
    BY <2>a DEF a
  <2>8. a = (((a + guess) % 256) - guess) % 256
    BY <2>5, <2>7, Undone
  <2> QED BY <2>6, <2>8 DEF a
<1>5. RowUndoesFilter'
  BY <1>3, <1>4 DEF RowUndoesFilter
<1> QED BY <1>3, <1>5 DEF LineInv

(* For any scanlines and their number, PngImage decodes each so that         *)
(* filtering it again, as an encoder does, gives the bytes that were read,   *)
(* modulo 256 (unfilterRow, paethPredictor).                                 *)
THEOREM FilterIsUndone == PngAssumption => (PngSpec => []RowUndoesFilter)
<1> SUFFICES ASSUME PngAssumption PROVE PngSpec => []RowUndoesFilter
  OBVIOUS
<1>1. PngInit => LineInv
  <2> SUFFICES ASSUME PngInit PROVE LineInv
    OBVIOUS
  <2>1. line = [number |-> 0, filter |-> 0, raw |-> <<>>, row |-> <<>>, previous |-> <<>>]
    BY DEF PngInit, NoLine
  <2>2. <<>> \in Seq(Byte)
    OBVIOUS
  <2>3. line.raw = <<>>
    BY <2>1
  <2> QED BY <2>1, <2>2, <2>3 DEF LineInv, RowUndoesFilter
<1>2. LineInv /\ [PngNext]_pngVars => LineInv'
  <2> SUFFICES ASSUME LineInv, [PngNext]_pngVars PROVE LineInv'
    OBVIOUS
  <2>1. ASSUME UNCHANGED line PROVE LineInv'
    BY <2>1 DEF LineInv, RowUndoesFilter
  <2>2. ASSUME NEW c \in Chunks, ReadChunk(c) PROVE LineInv'
    BY <2>1, <2>2 DEF ReadChunk
  <2>3. CASE Inflate
    BY <2>1, <2>3 DEF Inflate
  <2>4. ASSUME NEW filter \in 0..4, NEW raw \in Raws, DecodeRow(filter, raw) PROVE LineInv'
    <3>1. raw \in Seq(Byte)
      BY DEF PngAssumption, Byte
    <3> QED BY <2>4, <3>1, DecodeKeepsLine
  <2>5. CASE UNCHANGED pngVars
    BY <2>1, <2>5 DEF pngVars
  <2> QED BY <2>2, <2>3, <2>4, <2>5 DEF PngNext
<1>3. LineInv => RowUndoesFilter
  BY DEF LineInv
<1> QED BY <1>1, <1>2, <1>3, PTL DEF PngSpec

=============================================================================
