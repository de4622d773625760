----------------------------- MODULE Deliveries -----------------------------
(***************************************************************************)
(* The mails the shop owes: an Issue's progress to its customer, a sale or *)
(* a reversal to its creator, and the launch mail to creators.  Each mail  *)
(* has one row, which a sender reserves, and one key the mail provider     *)
(* recognises; the first two are sent by a job, tried again when it fails, *)
(* the third by the owner's batch.  The job queue is JobQueue; a lease it  *)
(* lost is why two senders of one mail may run at once.                    *)
(***************************************************************************)
EXTENDS NoValue, Integers, FiniteSets

CONSTANTS
  ToCustomer,  \* mails a job sends: of an Issue's progress
  ToCreator,   \* mails a job sends: of a sale or its reversal
  Launch,      \* mails of the owner's batch
  Senders,     \* runs of the job and of the batch that may overlap
  Tries,       \* attempts of a job
  MaxLosses,   \* bound on mails that fail or whose answer is lost
  MaxDeaths    \* bound on senders that die

(* What the values of the constants must satisfy. *)
MailAssumption == Launch \cap (ToCustomer \cup ToCreator) = {}

VARIABLES
  rowStatus,   \* the row of each mail
  mailed,      \* keys the provider has accepted
  left,        \* attempts the job of each mail has left, 0 without a job
  sender,      \* the mail a sender works on
  senderStep,  \* and its next statement
  losses, deaths

mailVars == <<rowStatus, mailed, left, sender, senderStep, losses, deaths>>
Told == ToCustomer \cup ToCreator
Mails == Told \cup Launch

MailInit ==
  /\ rowStatus = [m \in Mails |-> "none"]
  /\ mailed = {}
  /\ left = [m \in Mails |-> 0]
  /\ sender = [s \in Senders |-> None]
  /\ senderStep = [s \in Senders |-> "idle"]
  /\ losses = 0 /\ deaths = 0

Enqueue(m) ==
  /\ m \in Told /\ rowStatus[m] = "none" /\ left[m] = 0
  /\ left' = [left EXCEPT ![m] = Tries]
  /\ UNCHANGED <<rowStatus, mailed, sender, senderStep, losses, deaths>>

BeginMail(s, m) == senderStep' = [senderStep EXCEPT ![s] = "reserve"] /\ sender' = [sender EXCEPT ![s] = m]
Finish(s) == senderStep' = [senderStep EXCEPT ![s] = "idle"] /\ sender' = [sender EXCEPT ![s] = None]
Move(s, next) == senderStep' = [senderStep EXCEPT ![s] = next] /\ UNCHANGED sender

TakeJob(s, m) ==
  /\ senderStep[s] = "idle" /\ left[m] > 0
  /\ BeginMail(s, m)
  /\ left' = [left EXCEPT ![m] = @ - 1]
  /\ UNCHANGED <<rowStatus, mailed, losses, deaths>>

(* sendBatch lists the mails not sent yet, and takes them one by one.        *)
TakeLaunch(s, m) ==
  /\ senderStep[s] = "idle" /\ m \in Launch /\ rowStatus[m] # "SENT"
  /\ BeginMail(s, m)
  /\ UNCHANGED <<rowStatus, mailed, left, losses, deaths>>

(* The owner retries a mail to a customer whose row says FAILED, under a job *)
(* of its own; nothing retries one to a creator.                             *)
RetryNotification(m) ==
  /\ m \in ToCustomer /\ rowStatus[m] = "FAILED" /\ left[m] = 0
  /\ left' = [left EXCEPT ![m] = Tries]
  /\ UNCHANGED <<rowStatus, mailed, sender, senderStep, losses, deaths>>

(* The row can be reserved: for the batch, whenever it is not sent; a        *)
(* variant reserves a row only once.                                         *)
ReservableOnce(m) == rowStatus[m] = "none"
Reservable(m) == rowStatus[m] \in {"none", "FAILED"} \/ (m \in Launch /\ rowStatus[m] # "SENT")

(* A job whose mail another sender has reserved is done.                     *)
ReserveMail(s) ==
  LET m == sender[s] IN
  /\ senderStep[s] = "reserve"
  /\ IF Reservable(m)
     THEN rowStatus' = [rowStatus EXCEPT ![m] = "PENDING"] /\ Move(s, "send") /\ UNCHANGED left
     ELSE left' = [left EXCEPT ![m] = 0] /\ Finish(s) /\ UNCHANGED rowStatus
  /\ UNCHANGED <<mailed, losses, deaths>>

SendMail(s) ==
  LET m == sender[s] IN
  /\ senderStep[s] = "send"
  /\ \/ mailed' = mailed \cup {m} /\ Move(s, "sent") /\ UNCHANGED losses
     \/ /\ losses < MaxLosses /\ losses' = losses + 1
        /\ mailed' \in {mailed, mailed \cup {m}}
        /\ Move(s, "failed")
  /\ UNCHANGED <<rowStatus, left, deaths>>

MarkSent(s) ==
  LET m == sender[s] IN
  /\ senderStep[s] = "sent"
  /\ rowStatus' = IF rowStatus[m] = "PENDING" \/ m \in Launch
               THEN [rowStatus EXCEPT ![m] = "SENT"] ELSE rowStatus
  /\ left' = [left EXCEPT ![m] = 0]
  /\ Finish(s)
  /\ UNCHANGED <<mailed, losses, deaths>>

(* A row that was sent stays sent; a variant forgets it.                     *)
MayFailAny(m) == TRUE
MayFail(m) == IF m \in Launch THEN rowStatus[m] # "SENT" ELSE rowStatus[m] = "PENDING"

(* markFailed; the error makes the job try again while it has attempts.      *)
MarkFailed(s) ==
  LET m == sender[s] IN
  /\ senderStep[s] = "failed"
  /\ rowStatus' = IF MayFail(m) THEN [rowStatus EXCEPT ![m] = "FAILED"] ELSE rowStatus
  /\ Finish(s)
  /\ UNCHANGED <<mailed, left, losses, deaths>>

SenderDies(s) ==
  /\ senderStep[s] # "idle"
  /\ deaths < MaxDeaths /\ deaths' = deaths + 1
  /\ Finish(s)
  /\ UNCHANGED <<rowStatus, mailed, left, losses>>

Work(s) == ReserveMail(s) \/ SendMail(s) \/ MarkSent(s) \/ MarkFailed(s)

MailNext ==
  \/ \E m \in Told : Enqueue(m) \/ RetryNotification(m)
  \/ \E s \in Senders :
       \/ \E m \in Told : TakeJob(s, m)
       \/ \E m \in Launch : TakeLaunch(s, m)
       \/ ReserveMail(s) \/ SendMail(s) \/ MarkSent(s) \/ MarkFailed(s) \/ SenderDies(s)

MailSpec == MailInit /\ [][MailNext]_mailVars

(* The server finishes what it runs, the worker takes a job, and the owner   *)
(* retries what the console shows as failed.                                 *)
MailFairness ==
  /\ \A s \in Senders : WF_mailVars(Work(s))
  /\ \A m \in Told :
       /\ WF_mailVars(\E s \in Senders : TakeJob(s, m))
       /\ WF_mailVars(RetryNotification(m))
MailFairSpec == MailSpec /\ MailFairness

-----------------------------------------------------------------------------
(* Properties.                                                               *)

(* A mail a job sends has one sender between its reservation and its answer, *)
(* although two runs of the job overlap.                                     *)
OneSender == \A s, t \in Senders :
  s # t /\ sender[s] = sender[t] /\ sender[s] \in Told =>
    ~({senderStep[s], senderStep[t]} \subseteq {"send", "sent", "failed"})

(* A row that says SENT is of a mail the provider took, and no late failure  *)
(* of another sender takes that back.                                        *)
SentStays == \A m \in Mails : rowStatus[m] = "SENT" => rowStatus'[m] = "SENT" /\ m \in mailed
SentIsMailed == []OneSender /\ [][SentStays]_mailVars

(* A customer's mail that has a job is sent in the end, whatever the         *)
(* provider refuses and whichever sender gives up: only a sender that died   *)
(* with the row reserved leaves it behind, nobody's.                         *)
Orphaned(m) == deaths > 0 /\ rowStatus[m] = "PENDING" /\ \A s \in Senders : sender[s] # m
Waiting(m) == left[m] > 0
SentOrOrphaned(m) == rowStatus[m] = "SENT" \/ Orphaned(m)
JobMailIsSent == \A m \in ToCustomer : Waiting(m) ~> SentOrOrphaned(m)
=============================================================================
