---------------------------- MODULE ContactCodes ---------------------------
(***************************************************************************)
(* The one-time codes that verify a contact: asking for one, typing it,    *)
(* using an email verified for an earlier order, and regaining an Issue on *)
(* another device with its code and the contact's email.                   *)
(*                                                                         *)
(* A request is a handler of the server; a customer's tab has one on the   *)
(* way at a time and keeps the last challenge it was given.  Time is the   *)
(* end of a code's cooldown, of its ten minutes and of a rate window; the  *)
(* windows themselves are in RateWindow.  An order is paid once a payment  *)
(* attempt refers to its contact (Checkout has that part).                 *)
(***************************************************************************)
EXTENDS NoValue, Integers, Sequences, FiniteSets

CONSTANTS
  Devices,        \* tabs and devices
  Orders,         \* experiences
  ContactEmails,
  OtpAttempts,    \* guesses a code allows
  Limits,         \* codes a window allows: of "email", of "experience"
  MaxChallenges,  \* bound on codes asked for
  MaxMisses,      \* bound on wrong guesses
  Expirable,      \* bound: the codes whose ten minutes may run out
  MaxCodeLosses   \* bound on lost requests, lost answers and failed mails

(* What the values of the constants must satisfy. *)
ContactAssumption ==
  /\ IsFiniteSet(Devices)
  /\ OtpAttempts \in Nat \ {0}
  /\ Limits \in [{"email", "experience"} -> Nat]
  /\ MaxChallenges \in Nat /\ MaxMisses \in Nat /\ MaxCodeLosses \in Nat
  /\ None \notin ContactEmails \cup Orders
  /\ Orders \cap ContactEmails = {}

VARIABLES
  challenges,  \* otp_challenges, by created_at
  contact,     \* verified_contacts: the email of each order
  paid,        \* orders whose contact a live payment attempt refers to
  proofs,      \* continuity cookies: <<source order, email, child order>>
  counts,      \* otp_rate_limits: codes counted in the window, by subject
  heldCode,    \* the challenge each tab holds, 0 for none or a decoy
  codeStep,    \* the next statement of each tab's request
  codeReq,     \* what the request works on
  codeLosses   \* requests lost so far

rows == <<challenges, contact>>
world == <<paid, proofs>>
tabVars == <<heldCode, codeStep, codeReq>>
contactVars == <<rows, world, counts, tabVars, codeLosses>>

Subjects == Orders \cup ContactEmails
ContactSteps == {"idle", "reserve", "create", "send", "miss", "verify", "copy"}

(* uses and misses are history: how often the code was accepted, and how     *)
(* often a wrong one was judged against it.                                  *)
Challenge ==
  [order : Orders, email : ContactEmails, left : 0..OtpAttempts, consumed : BOOLEAN,
   cooling : BOOLEAN, live : BOOLEAN, mailed : BOOLEAN, uses : Nat, misses : Nat]

CodeRequest ==
  [kind : {"contact", "recovery", "reuse"}, order : Orders \cup {None}, email : ContactEmails \cup {None},
   challenge : 0..MaxChallenges, source : Orders \cup {None}, right : BOOLEAN,
   remaining : 0..OtpAttempts]

(* Types, and what refers to a row: the row is there. *)
ContactTypeOK ==
  /\ challenges \in Seq(Challenge)
  /\ contact \in [Orders -> ContactEmails \cup {None}]
  /\ paid \subseteq {o \in Orders : contact[o] # None}
  /\ proofs \subseteq Orders \X ContactEmails \X Orders
  /\ counts \in [Subjects -> Nat]
  /\ heldCode \in [Devices -> 0..Len(challenges)]
  /\ codeStep \in [Devices -> ContactSteps]
  /\ codeReq \in [Devices -> CodeRequest]
  /\ codeLosses \in 0..MaxCodeLosses

NoCodeRequest ==
  [kind |-> "contact", order |-> None, email |-> None, challenge |-> 0,
   source |-> None, right |-> FALSE, remaining |-> 0]

ContactInit ==
  /\ challenges = <<>>
  /\ contact = [o \in Orders |-> None]
  /\ paid = {}
  /\ proofs = {}
  /\ counts = [s \in Subjects |-> 0]
  /\ heldCode = [t \in Devices |-> 0]
  /\ codeStep = [t \in Devices |-> "idle"]
  /\ codeReq = [t \in Devices |-> NoCodeRequest]
  /\ codeLosses = 0

-----------------------------------------------------------------------------
(* Statements.                                                               *)

(* findRecentChallenge: the newest unconsumed code of the pair, 0 for none.  *)
Open(o, m) ==
  {c \in 1..Len(challenges) :
     challenges[c].order = o /\ challenges[c].email = m /\ ~challenges[c].consumed}
Recent(o, m) ==
  IF Open(o, m) = {} THEN 0 ELSE CHOOSE c \in Open(o, m) : \A d \in Open(o, m) : d <= c
Cooling(o, m) == Recent(o, m) # 0 /\ challenges[Recent(o, m)].cooling

(* reserveOtpRateLimit for both subjects at once: each counts if its window  *)
(* has room, whatever the other answers.                                     *)
Room(s, kind) == counts[s] < Limits[kind]

NewChallenge(o, m) ==
  [order |-> o, email |-> m, left |-> OtpAttempts, consumed |-> FALSE,
   cooling |-> TRUE, live |-> TRUE, mailed |-> FALSE, uses |-> 0, misses |-> 0]

(* recordFailedAttempt: LEAST keeps the number a slower guess would raise; a *)
(* variant writes what the slower guess has computed.                        *)
LeastLeft(left, remaining) == IF remaining < left THEN remaining ELSE left
LastLeft(left, remaining) == remaining
AfterMiss(left, remaining) == LeastLeft(left, remaining)

(* The conditions of verifyContact's UPDATE; a variant trusts the earlier    *)
(* look for whether the code was used.                                       *)
ConsumableOnce(c) == challenges[c].live /\ challenges[c].left > 0
Consumable(c) == ~challenges[c].consumed /\ ConsumableOnce(c)

(* The trigger of migration 0015 refuses to update a contact under payment.  *)
Locked(o) == contact[o] # None /\ o \in paid

(* findRecoveryTargetByIssueCode: an Issue exists once its order is paid.    *)
Resolves(o, m) == o \in paid /\ contact[o] = m

(* A request ends.  A right code refused is remembered until the next one.   *)
Done(t) == codeStep' = [codeStep EXCEPT ![t] = "idle"] /\ codeReq' = [codeReq EXCEPT ![t] = NoCodeRequest]
Refused(t, r) ==
  /\ codeStep' = [codeStep EXCEPT ![t] = "idle"]
  /\ codeReq' = [codeReq EXCEPT ![t] = IF r.right THEN r ELSE NoCodeRequest]
ContactGo(t, next) == codeStep' = [codeStep EXCEPT ![t] = next] /\ UNCHANGED codeLosses

(* A recovery answers a refusal as it does an unknown pair: with a challenge *)
(* that does not exist.                                                      *)
Decoy(t, kind) == heldCode' = [heldCode EXCEPT ![t] = IF kind = "recovery" THEN 0 ELSE @]

-----------------------------------------------------------------------------
(* Asking for a code: ContactService.requestOtpForExperience.                *)

AskCode(t) ==
  /\ codeStep[t] = "idle"
  /\ \E o \in Orders, m \in ContactEmails, kind \in {"contact", "recovery"} :
       /\ kind = "recovery" => Resolves(o, m)
       /\ IF Cooling(o, m) THEN Done(t) /\ Decoy(t, kind) /\ UNCHANGED codeLosses
          ELSE /\ UNCHANGED heldCode
               /\ codeReq' = [codeReq EXCEPT ![t] =
                                [NoCodeRequest EXCEPT !.kind = kind, !.order = o, !.email = m]]
               /\ ContactGo(t, "reserve")
  /\ UNCHANGED <<rows, world, counts>>

AskUnknown(t) ==
  /\ codeStep[t] = "idle"
  /\ \E o \in Orders, m \in ContactEmails : ~Resolves(o, m)
  /\ Decoy(t, "recovery")
  /\ Done(t)
  /\ UNCHANGED <<rows, world, counts, codeLosses>>

Reserve(t) ==
  LET o == codeReq[t].order  m == codeReq[t].email IN
  /\ codeStep[t] = "reserve"
  /\ counts' = [counts EXCEPT ![m] = IF Room(m, "email") THEN @ + 1 ELSE @,
                              ![o] = IF Room(o, "experience") THEN @ + 1 ELSE @]
  /\ IF Room(m, "email") /\ Room(o, "experience")
     THEN ContactGo(t, "create") /\ UNCHANGED <<codeReq, heldCode>>
     ELSE Done(t) /\ Decoy(t, codeReq[t].kind) /\ UNCHANGED codeLosses
  /\ UNCHANGED <<rows, world>>

(* createChallenge: the pair's open codes are consumed by the new one.       *)
Create(t) ==
  LET o == codeReq[t].order  m == codeReq[t].email IN
  /\ codeStep[t] = "create"
  /\ Len(challenges) < MaxChallenges
  /\ challenges' =
       Append([c \in 1..Len(challenges) |->
                 IF c \in Open(o, m) THEN [challenges[c] EXCEPT !.consumed = TRUE]
                 ELSE challenges[c]],
              NewChallenge(o, m))
  /\ codeReq' = [codeReq EXCEPT ![t].challenge = Len(challenges) + 1]
  /\ ContactGo(t, "send")
  /\ UNCHANGED <<contact, world, counts, heldCode>>

Mail(c) == challenges' = [challenges EXCEPT ![c].mailed = TRUE]

(* sendOtp: the mail goes out and the tab learns the challenge; or the mail  *)
(* goes out and the answer is lost; or the mail fails.                       *)
Send(t) ==
  LET c == codeReq[t].challenge IN
  /\ codeStep[t] = "send"
  /\ \/ /\ Mail(c)
        /\ \/ heldCode' = [heldCode EXCEPT ![t] = c] /\ Done(t) /\ UNCHANGED codeLosses
           \/ codeLosses < MaxCodeLosses /\ codeLosses' = codeLosses + 1 /\ Done(t) /\ UNCHANGED heldCode
     \/ /\ codeLosses < MaxCodeLosses /\ codeLosses' = codeLosses + 1
        /\ Done(t)
        /\ Decoy(t, codeReq[t].kind)
        /\ UNCHANGED challenges
  /\ UNCHANGED <<contact, world, counts>>

-----------------------------------------------------------------------------
(* Typing it: ContactService.verifyOtpForExperience.                         *)

Misses == LET sum[n \in 0..Len(challenges)] ==
                IF n = 0 THEN 0 ELSE sum[n - 1] + challenges[n].misses
          IN  sum[Len(challenges)]

(* What the first look accepts.                                              *)
Active(c) == ~challenges[c].consumed /\ challenges[c].live /\ challenges[c].left > 0

Typed(c, kind, right) ==
  [NoCodeRequest EXCEPT !.kind = kind, !.order = challenges[c].order, !.challenge = c, !.right = right,
     !.remaining = IF challenges[c].left = 0 THEN 0 ELSE challenges[c].left - 1]

(* A code is typed right from its mail.  A browser may send a request again  *)
(* whose connection broke, so another handler may work on the challenge of   *)
(* a tab.  The order is known from the cookie; a recovery resolves it again. *)
Type(t) ==
  /\ codeStep[t] = "idle"
  /\ \E c \in {heldCode[u] : u \in Devices} \ {0}, right \in BOOLEAN, kind \in {"contact", "recovery"} :
       /\ right => challenges[c].mailed
       /\ ~right => Misses < MaxMisses
       /\ kind = "recovery" => Resolves(challenges[c].order, challenges[c].email)
       /\ IF Active(c)
          THEN /\ codeReq' = [codeReq EXCEPT ![t] = Typed(c, kind, right)]
               /\ ContactGo(t, IF right THEN "verify" ELSE "miss")
          ELSE Refused(t, Typed(c, kind, right)) /\ UNCHANGED codeLosses
  /\ UNCHANGED <<rows, world, counts, heldCode>>

Miss(t) ==
  LET c == codeReq[t].challenge IN
  /\ codeStep[t] = "miss"
  /\ challenges' = [challenges EXCEPT
       ![c].misses = @ + 1,
       ![c].left = IF challenges[c].consumed THEN @ ELSE AfterMiss(@, codeReq[t].remaining)]
  /\ Done(t)
  /\ UNCHANGED <<contact, world, counts, heldCode, codeLosses>>

(* verifyContact: one statement consumes the code and stores the contact; a  *)
(* locked contact aborts both.  A recovery then gets a new session token.    *)
Verify(t) ==
  LET c == codeReq[t].challenge  o == codeReq[t].order IN
  /\ codeStep[t] = "verify"
  /\ \/ /\ Consumable(c) /\ ~Locked(o)
        /\ challenges' = [challenges EXCEPT ![c].consumed = TRUE, ![c].uses = @ + 1]
        /\ contact' = [contact EXCEPT ![o] = challenges[c].email]
        /\ Done(t)
     \/ /\ ~Consumable(c) \/ Locked(o)
        /\ Refused(t, codeReq[t])
        /\ UNCHANGED rows
  /\ UNCHANGED <<world, counts, heldCode, codeLosses>>

-----------------------------------------------------------------------------
(* Using the email of an earlier order: checkContinuity, reuseVerified.      *)

Matching(p, o, m) == p[3] = o /\ p[2] = m

AskReuse(t) ==
  /\ codeStep[t] = "idle"
  /\ \E p \in proofs, o \in Orders, m \in ContactEmails :
       /\ Matching(p, o, m)
       /\ codeReq' = [codeReq EXCEPT ![t] =
                        [NoCodeRequest EXCEPT !.kind = "reuse", !.order = o, !.email = m, !.source = p[1]]]
  /\ ContactGo(t, "copy")
  /\ UNCHANGED <<rows, world, counts, heldCode>>

(* copyVerifiedContact: the source still has this email, and a contact the   *)
(* child has already verified is not replaced by another.                    *)
Replaces(o, m) == contact[o] \in {None, m}
Copies(s, o, m) == contact[s] = m /\ Replaces(o, m) /\ ~Locked(o)

Copy(t) ==
  LET o == codeReq[t].order  m == codeReq[t].email IN
  /\ codeStep[t] = "copy"
  /\ IF Copies(codeReq[t].source, o, m)
     THEN contact' = [contact EXCEPT ![o] = m] /\ Done(t)
     ELSE Done(t) /\ UNCHANGED contact
  /\ UNCHANGED <<challenges, world, counts, heldCode, codeLosses>>

-----------------------------------------------------------------------------
(* Surroundings.                                                             *)

(* An order with a contact is paid.                                          *)
Pay ==
  /\ \E o \in Orders \ paid : contact[o] # None /\ paid' = paid \cup {o}
  /\ UNCHANGED <<rows, proofs, counts, tabVars, codeLosses>>

(* A repeat order of a paid one: its cookie names the contact it copies.     *)
IssueProof ==
  /\ \E s \in paid, o \in Orders : s # o /\ proofs' = proofs \cup {<<s, contact[s], o>>}
  /\ UNCHANGED <<rows, paid, counts, tabVars, codeLosses>>

Cool ==
  /\ \E c \in 1..Len(challenges) :
       challenges[c].cooling /\ challenges' = [challenges EXCEPT ![c].cooling = FALSE]
  /\ UNCHANGED <<contact, world, counts, tabVars, codeLosses>>

Expire ==
  /\ \E c \in Expirable \cap 1..Len(challenges) :
       /\ challenges[c].live /\ ~challenges[c].cooling
       /\ challenges' = [challenges EXCEPT ![c].live = FALSE]
  /\ UNCHANGED <<contact, world, counts, tabVars, codeLosses>>

Lapse ==
  /\ \E s \in Subjects : counts[s] > 0 /\ counts' = [counts EXCEPT ![s] = 0]
  /\ UNCHANGED <<rows, world, tabVars, codeLosses>>

ContactDies(t) ==
  /\ codeStep[t] # "idle"
  /\ codeLosses < MaxCodeLosses /\ codeLosses' = codeLosses + 1
  /\ Done(t)
  /\ UNCHANGED <<rows, world, counts, heldCode>>

AskContact(t) == AskCode(t) \/ AskUnknown(t) \/ Type(t) \/ AskReuse(t)
ServeContact(t) ==
  \/ Reserve(t) \/ Create(t) \/ Send(t) \/ Miss(t) \/ Verify(t) \/ Copy(t)

ContactNext ==
  \/ \E t \in Devices : AskContact(t) \/ ServeContact(t) \/ ContactDies(t)
  \/ Pay \/ IssueProof \/ Cool \/ Expire \/ Lapse

ContactSpec == ContactInit /\ [][ContactNext]_contactVars

(* A customer who asks again only when the code held is of no use and every  *)
(* window has room, keeps asking, and types what the mail says; a server     *)
(* that answers; the clock.  One who asks while a window is full may be      *)
(* refused for ever: a refusal still counts in the other windows.            *)
Usable(c) == c # 0 /\ challenges[c].mailed /\ Active(c)
AllRoom == \A o \in Orders, m \in ContactEmails : Room(o, "experience") /\ Room(m, "email")
Patient(t) == ~Usable(heldCode[t]) /\ AllRoom
PatientNext ==
  \/ \E t \in Devices :
       \/ Patient(t) /\ (AskCode(t) \/ AskUnknown(t))
       \/ Type(t) \/ AskReuse(t) \/ ServeContact(t) \/ ContactDies(t)
  \/ Pay \/ IssueProof \/ Cool \/ Expire \/ Lapse

AskServed(t) == Patient(t) /\ AskCode(t) /\ codeStep'[t] = "reserve"
TypeRight(t) == Type(t) /\ codeStep'[t] = "verify"
ContactFairness ==
  /\ \A t \in Devices :
       WF_contactVars(ServeContact(t)) /\ SF_contactVars(AskServed(t)) /\ SF_contactVars(TypeRight(t))
  /\ WF_contactVars(Cool) /\ WF_contactVars(Lapse)
PatientSpec == ContactInit /\ [][PatientNext]_contactVars /\ ContactFairness

-----------------------------------------------------------------------------
(* Properties.                                                               *)

(* Two tabs may read the same code as unused; it is accepted once.           *)
AcceptedOnce == \A c \in 1..Len(challenges) : challenges[c].uses <= 1

(* Guesses that run at once read the same number left, so a code allows more *)
(* than OtpAttempts wrong ones, but never more than that for each tab.       *)
GuessesBounded ==
  \A c \in 1..Len(challenges) :
    challenges[c].misses <= OtpAttempts * Cardinality(Devices)

(* The right code of an unpaid order is refused only if another code, its    *)
(* time or its guesses made it void.                                         *)
Void(c) == challenges[c].consumed \/ ~challenges[c].live \/ challenges[c].left = 0
RightCodeVerifies ==
  \A t \in Devices :
    codeStep[t] = "idle" /\ codeReq[t].right /\ codeReq[t].kind = "contact" =>
      Void(codeReq[t].challenge) \/ codeReq[t].order \in paid

(* The email of a paid order is the one its customer proved: it never        *)
(* changes, and a reuse of an earlier email never takes the place of another *)
(* the child has verified.                                                   *)
ProvenStays ==
  \A o \in Orders :
    contact[o] # None /\ contact'[o] # contact[o] =>
      /\ o \notin paid
      /\ \E t \in Devices : codeStep[t] = "verify" /\ codeStep'[t] # "verify"

(* A code is accepted once, however many tabs type it, and refused only when *)
(* another code, its time or its guesses made it void; the email a customer  *)
(* proved is replaced by another proof only.                                 *)
CodeUsedOnce == [](AcceptedOnce /\ RightCodeVerifies) /\ [][ProvenStays]_contactVars

(* A customer who keeps asking for codes and types them right is verified,   *)
(* although mails fail, answers are lost and windows are full.               *)
Verified == \E o \in Orders : contact[o] # None
PersistentCustomerVerifies == <>Verified

(* Masterplan(ISSUED ONCE).md:469: "A returning customer may regain Issue    *)
(* access on another browser/device using: Issue Code; matching verified     *)
(* contact; OTP challenge."                                                  *)
RightCodeRecovers ==
  \A t \in Devices :
    codeStep[t] = "idle" /\ codeReq[t].right /\ codeReq[t].kind = "recovery" => Void(codeReq[t].challenge)
=============================================================================
