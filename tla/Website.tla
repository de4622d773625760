------------------------------ MODULE Website ------------------------------
(***************************************************************************)
(* The owner's control of the shop: the retail catalog, kept as numbered   *)
(* versions of which one is ACTIVE, and the prompts of one question        *)
(* family.  Owner tabs edit what they last read and post it; an answer is  *)
(* followed by a fresh read.  A product stands for its variants: its price *)
(* is 0 while none of them is sold.                                        *)
(***************************************************************************)
EXTENDS NoValue, Naturals, Sequences

CONSTANTS
  Panels, Products, Questions,
  Mapped,      \* products the factory mapping knows
  Boot,        \* the catalog the program starts from
  Asked,       \* the prompts that exist and are active at the start
  Calls,       \* requests under way at once
  MaxPrice,    \* bound on prices
  MaxCatalogs  \* bound on published catalogs

(* What the values of the constants must satisfy. *)
WebsiteAssumption ==
  /\ Boot \in [Products -> Nat]
  /\ Asked \subseteq Questions
  /\ MaxPrice \in Nat

VARIABLES
  versions,  \* payloads of ops_website_config_versions, by version
  live,      \* the versions whose status is ACTIVE
  prompts,   \* question_definitions.active of the family, or no row
  panel,     \* what each panel shows
  call       \* the requests

websiteVars == <<versions, live, prompts, panel, call>>

NoCall == [stage |-> "idle", tab |-> None, body |-> Boot, item |-> None, value |-> 0,
           retires |-> {}, seen |-> Asked]

WebsiteInit ==
  /\ versions = <<Boot>>
  /\ live = {1}
  /\ prompts = [q \in Questions |-> IF q \in Asked THEN "on" ELSE "none"]
  /\ panel = [t \in Panels |-> [form |-> Boot, on |-> Asked, dirty |-> FALSE, working |-> FALSE]]
  /\ call = [c \in Calls |-> NoCall]

Active(p) == {q \in Questions : p[q] = "on"}
Catalog == IF live = {} THEN Boot ELSE versions[CHOOSE v \in live : \A w \in live : w <= v]

Step(c, stage) == call' = [call EXCEPT ![c].stage = stage]
AnswerCall(c) == call' = [call EXCEPT ![c] = [NoCall EXCEPT !.stage = "refresh", !.tab = call[c].tab]]
Server == UNCHANGED panel

-----------------------------------------------------------------------------
(* The panel.                                                                *)

Edit(t, p) ==
  /\ \E v \in 0 .. MaxPrice : panel' = [panel EXCEPT ![t].form[p] = v, ![t].dirty = TRUE]
  /\ UNCHANGED <<versions, live, prompts, call>>

(* run: nothing but the buttons' disabled attribute keeps two apart.         *)
BeginCall(t, request) ==
  /\ \E c \in Calls : call[c].stage = "idle" /\ call' = [call EXCEPT ![c] = request]
  /\ panel' = [panel EXCEPT ![t].working = TRUE]
  /\ UNCHANGED <<versions, live, prompts>>

PublishForm(t) ==
  /\ ~panel[t].working /\ panel[t].dirty
  /\ BeginCall(t, [NoCall EXCEPT !.stage = "check", !.tab = t, !.body = panel[t].form])

QuickPrice(t, p) ==
  /\ ~panel[t].working
  /\ \E v \in 1 .. MaxPrice :
       BeginCall(t, [NoCall EXCEPT !.stage = "current", !.tab = t, !.item = p, !.value = v])

(* RETIRE and ACTIVATE; leaving a weight's field posts the shown state, and  *)
(* does so while another request is under way.                               *)
Toggle(t, q) ==
  /\ ~panel[t].working
  /\ BeginCall(t, [NoCall EXCEPT !.stage = "look", !.tab = t, !.item = q,
                             !.value = IF q \in panel[t].on THEN 0 ELSE 1])

Weigh(t, q) ==
  BeginCall(t, [NoCall EXCEPT !.stage = "look", !.tab = t, !.item = q,
                          !.value = IF q \in panel[t].on THEN 1 ELSE 0])

NewQuestion(t) ==
  ~panel[t].working /\ BeginCall(t, [NoCall EXCEPT !.stage = "create", !.tab = t])

-----------------------------------------------------------------------------
(* OpsWebsiteService.                                                        *)

(* publishProductPrice reads the ACTIVE catalog, and publishes it whole.     *)
ReadCurrent(c) ==
  /\ call[c].stage = "current"
  /\ LET product == call[c].item IN
     call' = IF Catalog[product] = 0 THEN [call EXCEPT ![c].stage = "failed"]
             ELSE [call EXCEPT ![c].stage = "check", ![c].body = [Catalog EXCEPT ![product] = call[c].value]]
  /\ Server /\ UNCHANGED <<versions, live, prompts>>

CheckCatalog(c) ==
  /\ call[c].stage = "check"
  /\ Step(c, IF \A p \in Products : call[c].body[p] > 0 => p \in Mapped THEN "lock" ELSE "failed")
  /\ Server /\ UNCHANGED <<versions, live, prompts>>

(* publishVersionedConfig: one transaction of three statements, each of      *)
(* which reads what is committed when it runs.                               *)
LockAny(c) == TRUE
LockFree(c) == \A d \in Calls : call[d].stage \notin {"retire", "rows", "insert"}

Lock(c) ==
  /\ call[c].stage = "lock" /\ LockFree(c) /\ Len(versions) < MaxCatalogs
  /\ Step(c, "retire")
  /\ Server /\ UNCHANGED <<versions, live, prompts>>

(* The UPDATE sees the rows that are ACTIVE when it starts, waits for those  *)
(* another transaction holds, and takes the ones that still are.             *)
Retire(c) ==
  /\ call[c].stage = "retire"
  /\ call' = [call EXCEPT ![c].stage = "rows", ![c].retires = live]
  /\ Server /\ UNCHANGED <<versions, live, prompts>>

TakeRows(c) ==
  /\ call[c].stage = "rows"
  /\ \A d \in Calls : call[d].stage = "insert" => call[d].retires \cap call[c].retires = {}
  /\ call' = [call EXCEPT ![c].stage = "insert", ![c].retires = @ \cap live]
  /\ Server /\ UNCHANGED <<versions, live, prompts>>

(* Two ACTIVE rows of a type are refused by the unique index.                *)
Insert(c) ==
  /\ call[c].stage = "insert"
  /\ IF live \subseteq call[c].retires
     THEN /\ versions' = Append(versions, call[c].body)
          /\ live' = {Len(versions) + 1}
          /\ AnswerCall(c)
     ELSE /\ call' = [call EXCEPT ![c].stage = "conflict", ![c].retires = {}]
          /\ UNCHANGED <<versions, live>>
  /\ Server /\ UNCHANGED prompts

(* updateQuestion: one statement, whose look at the rest of the family is of *)
(* what was committed when it started.                                       *)
KeepsFamily(c) == call[c].value = 1 \/ Active(prompts) \ {call[c].item} # {}

LookAtFamily(c) ==
  /\ call[c].stage = "look"
  /\ Step(c, IF KeepsFamily(c) THEN "write" ELSE "failed")
  /\ Server /\ UNCHANGED <<versions, live, prompts>>

WriteQuestion(c) ==
  /\ call[c].stage = "write"
  /\ prompts' = [prompts EXCEPT ![call[c].item] = IF call[c].value = 1 THEN "on" ELSE "off"]
  /\ AnswerCall(c)
  /\ Server /\ UNCHANGED <<versions, live>>

(* createQuestionVersion: a new row, active at once.                         *)
CreateVersion(c) ==
  /\ call[c].stage = "create"
  /\ \E q \in Questions :
       /\ prompts[q] = "none"
       /\ prompts' = [prompts EXCEPT ![q] = "on"]
  /\ AnswerCall(c)
  /\ Server /\ UNCHANGED <<versions, live>>

-----------------------------------------------------------------------------
(* The answer, and the fresh read that follows it.                           *)

GetState(c) ==
  /\ call[c].stage = "refresh"
  /\ call' = [call EXCEPT ![c].stage = "apply", ![c].body = Catalog, ![c].seen = Active(prompts)]
  /\ Server /\ UNCHANGED <<versions, live, prompts>>

ApplyState(c) ==
  /\ call[c].stage = "apply"
  /\ panel' = [panel EXCEPT ![call[c].tab] =
               [form |-> call[c].body, on |-> call[c].seen, dirty |-> FALSE, working |-> FALSE]]
  /\ call' = [call EXCEPT ![c] = NoCall]
  /\ UNCHANGED <<versions, live, prompts>>

(* A refusal, a lost answer, a dead server: an open transaction is undone.   *)
Fails(c) ==
  /\ call[c].stage # "idle"
  /\ panel' = [panel EXCEPT ![call[c].tab].working = FALSE]
  /\ call' = [call EXCEPT ![c] = NoCall]
  /\ UNCHANGED <<versions, live, prompts>>

ServeCatalog(c) == ReadCurrent(c) \/ CheckCatalog(c) \/ Lock(c) \/ Retire(c) \/ TakeRows(c) \/ Insert(c)
ServeQuestion(c) == LookAtFamily(c) \/ WriteQuestion(c) \/ CreateVersion(c)

WebsiteNext ==
  \/ \E t \in Panels :
       \/ PublishForm(t) \/ NewQuestion(t)
       \/ \E p \in Products : Edit(t, p) \/ QuickPrice(t, p)
       \/ \E q \in panel[t].on \cup Active(prompts) : Toggle(t, q) \/ Weigh(t, q)
  \/ \E c \in Calls : ServeCatalog(c) \/ ServeQuestion(c) \/ GetState(c) \/ ApplyState(c) \/ Fails(c)

WebsiteSpec == WebsiteInit /\ [][WebsiteNext]_websiteVars

-----------------------------------------------------------------------------
(* Properties.                                                               *)

(* However many catalogs are published at once, the newest version is the    *)
(* one ACTIVE version, and no publisher runs into the unique index.          *)
OneCatalogIsServed ==
  /\ live = {Len(versions)}
  /\ \A c \in Calls : call[c].stage # "conflict"

(* PostgresOpsWebsiteStore.ts:67: "Question update would leave its family    *)
(* without an active prompt".                                                *)
FamilyKeepsAPrompt == Active(prompts) # {}
=============================================================================
