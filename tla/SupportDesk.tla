----------------------------- MODULE SupportDesk -----------------------------
(***************************************************************************)
(* Support: the form under an Issue, which stores a request before it      *)
(* mails the owner, and the owner's desk, which lists the requests of one  *)
(* filter and reveals, answers, closes and reopens the one it has chosen.  *)
(* The desk keeps choosing while an action runs, so an answer may be of    *)
(* another request; SupportPanel counts its selections to tell.            *)
(***************************************************************************)
EXTENDS NoValue, Integers, FiniteSets

CONSTANTS
  Issues,
  Ids,             \* ids a request may draw
  MaxDeskChoices,  \* bound on selections of the desk
  MaxFailures      \* bound on statements, mails and answers that fail

(* What the values of the constants must satisfy. *)
SupportAssumption == None \notin Issues /\ None \notin Ids

VARIABLES
  status,       \* the requests' rows: "none", "OPEN" or "CLOSED"
  about,        \* the Issue of each request
  form,         \* each Issue's form: the request it sends and the statement
  told,         \* requests whose reference the customer was given
  ownerMailed,  \* requests whose mail the provider took
  replied,      \* requests whose reply it took
  audit,        \* reveals, by Issue, and replies, by request, on record
  filter,       \* the desk: what it lists, and the rows it was answered
  items, selectedId, generation, message,
  deskAction,   \* what the desk's one running action does, and its next step
  failures

form_vars == <<about, form, told, ownerMailed>>
desk_vars == <<filter, items, selectedId, generation, message>>
supportVars == <<status, form_vars, replied, audit, desk_vars, deskAction, failures>>

NoForm == [id |-> None, step |-> "idle"]
NoDeskAction == [kind |-> "none", step |-> "idle", id |-> None, generation |-> 0]

SupportInit ==
  /\ status = [r \in Ids |-> "none"]
  /\ about = [r \in Ids |-> None]
  /\ form = [i \in Issues |-> NoForm]
  /\ told = {} /\ ownerMailed = {} /\ replied = {} /\ audit = {}
  /\ filter = "OPEN" /\ items = [status |-> "OPEN", ids |-> {}] /\ selectedId = None
  /\ generation = 0 /\ message = None
  /\ deskAction = NoDeskAction
  /\ failures = 0

SupportFails == failures < MaxFailures /\ failures' = failures + 1

(* A submission, the first or one tried again, has a new id.                 *)
Submit(i) ==
  /\ form[i].step = "idle"
  /\ \E r \in {r \in Ids : about[r] = None} :
       /\ form' = [form EXCEPT ![i] = [id |-> r, step |-> "create"]]
       /\ about' = [about EXCEPT ![r] = i]
  /\ UNCHANGED <<status, told, ownerMailed, replied, audit, desk_vars, deskAction, failures>>

Store(i) ==
  /\ form[i].step = "create"
  /\ \/ /\ status' = [status EXCEPT ![form[i].id] = "OPEN"]
        /\ form' = [form EXCEPT ![i].step = "send"]
        /\ UNCHANGED failures
     \/ SupportFails /\ form' = [form EXCEPT ![i] = NoForm] /\ UNCHANGED status
  /\ UNCHANGED <<about, told, ownerMailed, replied, audit, desk_vars, deskAction>>

(* The steps of create(); a variant mails before it stores.                  *)
MailFirst(i) == form[i].step \in {"create", "send"}
MailLast(i) == form[i].step = "send"

MailOwner(i) ==
  LET r == form[i].id IN
  /\ MailLast(i)
  /\ \/ ownerMailed' = ownerMailed \cup {r} /\ told' = told \cup {r} /\ UNCHANGED failures
     \/ SupportFails /\ ownerMailed' \in {ownerMailed, ownerMailed \cup {r}} /\ UNCHANGED told
  /\ form' = [form EXCEPT ![i] = NoForm]
  /\ UNCHANGED <<status, about, replied, audit, desk_vars, deskAction>>

-----------------------------------------------------------------------------
(* The desk.                                                                 *)

Listed(f) == [status |-> f, ids |-> {r \in Ids : status[r] = f}]

Refresh ==
  /\ items' = Listed(filter)
  /\ UNCHANGED <<status, form_vars, replied, audit, filter, selectedId, generation, message,
                 deskAction, failures>>

ChooseRequest(r) ==
  /\ r \in items.ids
  /\ generation < MaxDeskChoices /\ generation' = generation + 1
  /\ selectedId' = r /\ message' = None
  /\ UNCHANGED <<status, form_vars, replied, audit, filter, items, deskAction, failures>>

ChangeFilter ==
  /\ generation < MaxDeskChoices /\ generation' = generation + 1
  /\ filter' = IF filter = "OPEN" THEN "CLOSED" ELSE "OPEN"
  /\ selectedId' = None /\ message' = None
  /\ UNCHANGED <<status, form_vars, replied, audit, items, deskAction, failures>>

FirstStep == [reveal |-> "read", reply |-> "send", OPEN |-> "set", CLOSED |-> "set"]

(* run: the chosen request is looked up among the items shown.               *)
Run(kind) ==
  /\ deskAction.step = "idle"
  /\ selectedId \in items.ids
  /\ kind \in {"OPEN", "CLOSED"} => kind # items.status
  /\ deskAction' = [kind |-> kind, step |-> FirstStep[kind], id |-> selectedId, generation |-> generation]
  /\ UNCHANGED <<status, form_vars, replied, audit, desk_vars, failures>>

To(step) == deskAction' = [deskAction EXCEPT !.step = step]

(* reveal decrypts the messages, records who looked, and answers.            *)
AfterRead == "record"

Read ==
  /\ deskAction.step = "read" /\ To(AfterRead)
  /\ UNCHANGED <<status, form_vars, replied, audit, desk_vars, failures>>

Reply ==
  /\ deskAction.step = "send"
  /\ replied' = replied \cup {deskAction.id}
  /\ To("record")
  /\ UNCHANGED <<status, form_vars, audit, desk_vars, failures>>

SetStatus ==
  /\ deskAction.step = "set"
  /\ status' = [status EXCEPT ![deskAction.id] = deskAction.kind]
  /\ To("record")
  /\ UNCHANGED <<form_vars, replied, audit, desk_vars, failures>>

Recorded == CASE deskAction.kind = "reveal" -> {<<"reveal", about[deskAction.id]>>}
              [] deskAction.kind = "reply" -> {<<"reply", deskAction.id>>}
              [] OTHER -> {}

RecordAction ==
  /\ deskAction.step = "record"
  /\ audit' = audit \cup Recorded
  /\ To("answer")
  /\ UNCHANGED <<status, form_vars, replied, desk_vars, failures>>

(* The selection an answer is for.                                           *)
AnswerIsCurrent == deskAction.generation = generation

(* The answer, and the list the desk reads after it.                         *)
Answer ==
  /\ deskAction.step = "answer"
  /\ message' = IF deskAction.kind = "reveal" /\ AnswerIsCurrent THEN about[deskAction.id] ELSE message
  /\ items' = Listed(filter)
  /\ deskAction' = NoDeskAction
  /\ UNCHANGED <<status, form_vars, replied, audit, filter, selectedId, generation, failures>>

Lost ==
  /\ deskAction.step # "idle"
  /\ SupportFails
  /\ deskAction' = NoDeskAction
  /\ replied' \in {replied} \cup {replied \cup {deskAction.id} : x \in {deskAction.step} \cap {"send"}}
  /\ UNCHANGED <<status, form_vars, audit, desk_vars>>

SupportNext ==
  \/ \E i \in Issues : Submit(i) \/ Store(i) \/ MailOwner(i)
  \/ Refresh \/ ChangeFilter
  \/ \E r \in Ids : ChooseRequest(r)
  \/ \E kind \in DOMAIN FirstStep : Run(kind)
  \/ Read \/ Reply \/ SetStatus \/ RecordAction \/ Answer \/ Lost

SupportSpec == SupportInit /\ [][SupportNext]_supportVars

-----------------------------------------------------------------------------
(* Properties.                                                               *)

(* A message on the desk is of the Issue that is chosen, whatever was chosen *)
(* while it was fetched, and that somebody looked at it is on record.        *)
RevealedIsChosen ==
  message # None =>
    /\ selectedId # None /\ about[selectedId] = message
    /\ <<"reveal", message>> \in audit

(* What the owner was mailed and what the customer was given a reference of  *)
(* is a stored request, and a reply on record was sent, however calls fail.  *)
RequestsOnRecord ==
  /\ \A r \in ownerMailed \cup told : status[r] # "none"
  /\ told \subseteq ownerMailed
  /\ \A r \in Ids : <<"reply", r>> \in audit => r \in replied
=============================================================================
